---- MODULE Spec2Model ----
(***************************************************************************)
(* Model of the multi-tenant authorization and compliance core of the      *)
(* clinic SaaS (core/models.py, core/views.py, core/serializers.py,        *)
(* core/permissions.py, core/tenancy.py, seed_demo_clinics.py).            *)
(*                                                                         *)
(* The persistent store is the state: one variable per table.  Every       *)
(* request handler is one action; the store's constraints (UNIQUE,         *)
(* conditional UNIQUE) are checked inside the insert/update operators and  *)
(* surface as an IntegrityError that leaves the table unchanged.           *)
(***************************************************************************)
EXTENDS Integers, Sequences, FiniteSets, Bags, TLC

VARIABLES
    users,         \* CustomUser rows           : id -> row
    docs,          \* LegalDocument rows        : <<doc_type, version>> -> is_active
    consents,      \* UserConsent rows          : bag of [user, document]
    patients,      \* PatientProfile rows       : id -> row
    nextPatientId, \* PatientProfile id sequence
    appointments,  \* Appointment rows          : id -> row
    nextAppointmentId, \* next fresh Appointment id
    audit,         \* AuditLog rows, in insertion order
    tokens,        \* EmailVerificationToken rows : set of rows
    outbox,        \* notifications handed to e-mail / WhatsApp : set
    reg,           \* in-flight patient registrations: process -> locals
    resp           \* the response of the last request handled

vars == <<users, docs, consents, patients, nextPatientId, appointments,
          nextAppointmentId,
          audit, tokens, outbox, reg, resp>>

---------------------------------------------------------------------------
(* Bounds of the model *)

MaxVersion == 2
MaxDocs == 3
MaxAudit == 2
MaxPatients == 2
MaxCpfLen == 2
MaxRegs == 2
MaxCodes == 2
MaxAppointments == 2

---------------------------------------------------------------------------
(* Enumerations of core/models.py *)

None == "None"

\* NULL in a column that otherwise holds a user id / a digest
NoUser == 0
NoHash == <<"NULL">>

SAAS_ADMIN == "SAAS_ADMIN"
CLINIC_OWNER == "CLINIC_OWNER"
SECRETARY == "SECRETARY"
DOCTOR == "DOCTOR"
PATIENT == "PATIENT"

Role == {SAAS_ADMIN, CLINIC_OWNER, SECRETARY, DOCTOR, PATIENT}

DocType == {"TERMS", "PRIVACY", "CONSENT"}

Action == {"CREATE", "READ", "UPDATE", "DELETE", "LOGIN", "EXPORT"}

\* Clinic rows: two active tenants.
Clinic == {"A", "B"}

Versions == 1..MaxVersion
DocKeys == DocType \X Versions

\* The principal of a request that carries no valid credential.
AnonymousUser ==
    [id |-> NoUser, role |-> None, clinic |-> None, is_superuser |-> FALSE,
     doctor_for_secretary |-> NoUser, is_authenticated |-> FALSE]

\* An authenticated CustomUser as the views see it through request.user.
UserRow(id, role, clinic, su, doctor) ==
    [id |-> id, role |-> role, clinic |-> clinic, is_superuser |-> su,
     doctor_for_secretary |-> doctor, is_authenticated |-> TRUE]

IsAdmin(user) == user.is_superuser \/ user.role = SAAS_ADMIN

---------------------------------------------------------------------------
(* AuditLog *)

AuditEntry(user, clinic, target_model, target_id, action) ==
    [actor |-> user.id, clinic |-> clinic, target_model |-> target_model,
     target_object_id |-> target_id, action |-> action]

create_audit_log(log, user, clinic, target_model, target_id, action) ==
    Append(log, AuditEntry(user, clinic, target_model, target_id, action))

---------------------------------------------------------------------------
(* LegalDocument and UserConsent *)

ActiveDocs(d) == {k \in DOMAIN d : d[k]}

\* Mutant: the conditional unique constraint is missing from the table.
uniq_active_legal_document_per_type_missing(d) == TRUE

\* UniqueConstraint uniq_active_legal_document_per_type: the table d
\* satisfies it when no two active rows share a doc_type.
uniq_active_legal_document_per_type(d) ==
    \A k1, k2 \in ActiveDocs(d) : k1[1] = k2[1] => k1 = k2

\* Mutant: the insert is not checked against the active-version constraint.
LegalDocument_create_unconstrained(d, key, active) ==
    IF key \in DOMAIN d THEN [ok |-> FALSE, docs |-> d]
    ELSE [ok |-> TRUE,
          docs |-> [k \in DOMAIN d \cup {key} |->
                      IF k = key THEN active ELSE d[k]]]

\* LegalDocument.objects.create(version, doc_type, is_active): the row is
\* inserted unless (version, doc_type) exists or the constraint fails.
LegalDocument_create(d, key, active) ==
    LET new == [k \in DOMAIN d \cup {key} |-> IF k = key THEN active ELSE d[k]]
    IN  IF key \in DOMAIN d \/ ~uniq_active_legal_document_per_type(new)
        THEN [ok |-> FALSE, docs |-> d]
        ELSE [ok |-> TRUE, docs |-> new]

\* Mutant: saving a row as active first deactivates the other versions of
\* its type.
LegalDocument_save_replacing(d, key, active) ==
    [ok |-> TRUE,
     docs |-> [k \in DOMAIN d |->
                 IF k = key THEN active
                 ELSE IF active /\ k[1] = key[1] THEN FALSE ELSE d[k]]]

\* doc.is_active = active; doc.save()
LegalDocument_save(d, key, active) ==
    LET new == [d EXCEPT ![key] = active]
    IN  IF ~uniq_active_legal_document_per_type(new)
        THEN [ok |-> FALSE, docs |-> d]
        ELSE [ok |-> TRUE, docs |-> new]

ConsentRow(uid, key) == [user |-> uid, document |-> key]

\* UserConsent.objects.filter(user=uid, document__in=keys).count()
ConsentCount(c, uid, keys) ==
    LET rows == {r \in BagToSet(c) : r.user = uid /\ r.document \in keys}
        Sum[S \in SUBSET rows] ==
            IF S = {} THEN 0
            ELSE LET r == CHOOSE x \in S : TRUE
                 IN  CopiesIn(r, c) + Sum[S \ {r}]
    IN  Sum[rows]

\* Mutant: a plain create, without the lookup.
UserConsent_create_always(c, uid, key) ==
    [created |-> TRUE, consents |-> c (+) SetToBag({ConsentRow(uid, key)})]

\* UserConsent.objects.get_or_create(user, document) under unique_together
\* (user, document): returns the table and whether a row was created.
UserConsent_get_or_create(c, uid, key) ==
    IF BagIn(ConsentRow(uid, key), c)
    THEN [created |-> FALSE, consents |-> c]
    ELSE [created |-> TRUE, consents |-> c (+) SetToBag({ConsentRow(uid, key)})]

\* Mutant: the count is taken over all of the user's consent rows.
has_active_consent_unfiltered(user, d, c) ==
    LET active_docs == ActiveDocs(d)
    IN  IF active_docs = {} THEN TRUE
        ELSE ConsentCount(c, user.id, DOMAIN d) = Cardinality(active_docs)

\* CustomUser.has_active_consent
has_active_consent(user, d, c) ==
    LET active_docs == ActiveDocs(d)
    IN  IF active_docs = {} THEN TRUE
        ELSE ConsentCount(c, user.id, active_docs) = Cardinality(active_docs)

\* Mutant: the permission class only requires authentication.
HasActiveConsent_no_consent_check(user, d, c) ==
    IF ~user.is_authenticated THEN FALSE ELSE TRUE

\* permissions.HasActiveConsent.has_permission
HasActiveConsent_has_permission(user, d, c) ==
    IF ~user.is_authenticated THEN FALSE
    ELSE IF user.is_superuser \/ user.role = SAAS_ADMIN THEN TRUE
    ELSE has_active_consent(user, d, c)

---------------------------------------------------------------------------
(* Responses *)

Response(op, user, status, detail, data) ==
    [op |-> op, user |-> user, status |-> status, detail |-> detail,
     data |-> data]

\* The caller of an operation run outside a request (ORM, admin site,
\* management command).
Operator ==
    [id |-> NoUser, role |-> "operator", clinic |-> None, is_superuser |-> TRUE,
     doctor_for_secretary |-> NoUser, is_authenticated |-> TRUE]

---------------------------------------------------------------------------
(* PatientProfile: the national-ID codec and the table *)

Digits == {"1"}
Punctuation == {"."}
CpfChar == Digits \cup Punctuation

\* "".join(filter(str.isdigit, value))
RECURSIVE normalize_cpf(_)
normalize_cpf(value) ==
    IF value = <<>> THEN <<>>
    ELSE IF Head(value) \in Digits
         THEN <<Head(value)>> \o normalize_cpf(Tail(value))
         ELSE normalize_cpf(Tail(value))

\* hashlib.sha256(normalized).hexdigest(): a collision-free digest
sha256(normalized) == <<"sha256", normalized>>

\* serializers.make_cpf_hash
make_cpf_hash(value) == sha256(normalize_cpf(value))

\* Mutant: the digest is taken of the raw value, punctuation included.
build_cpf_hash_raw(cpf) ==
    IF cpf = <<>> THEN NoHash
    ELSE IF normalize_cpf(cpf) = <<>> THEN NoHash ELSE sha256(cpf)

\* PatientProfile._build_cpf_hash
build_cpf_hash(cpf) ==
    IF cpf = <<>> THEN NoHash
    ELSE LET normalized == normalize_cpf(cpf)
         IN  IF normalized = <<>> THEN NoHash ELSE sha256(normalized)

\* Mutant: the table carries no uniqueness constraint.
uniq_patient_cpf_hash_per_clinic_missing(p) == TRUE

\* UniqueConstraint uniq_patient_cpf_hash_per_clinic on (clinic, cpf_hash);
\* rows whose cpf_hash is NULL never collide.
uniq_patient_cpf_hash_per_clinic(p) ==
    \A i, j \in DOMAIN p :
        (/\ p[i].clinic = p[j].clinic
         /\ p[i].cpf_hash = p[j].cpf_hash
         /\ p[i].cpf_hash # NoHash) => i = j

\* PatientProfile.save(): recompute the hash, then write the row.
PatientProfile_save(p, id, row) ==
    LET cpf_hash == build_cpf_hash(row.cpf)
        saved == IF cpf_hash # NoHash THEN [row EXCEPT !.cpf_hash = cpf_hash]
                 ELSE row
        new == [i \in DOMAIN p \cup {id} |-> IF i = id THEN saved ELSE p[i]]
    IN  IF ~uniq_patient_cpf_hash_per_clinic(new)
        THEN [ok |-> FALSE, patients |-> p]
        ELSE [ok |-> TRUE, patients |-> new]

\* PatientProfile.objects.create(clinic=..., cpf=..., user=...)
PatientProfile_create(p, id, clinic, cpf, user) ==
    PatientProfile_save(p, id,
        [clinic |-> clinic, cpf |-> cpf, cpf_hash |-> NoHash, user |-> user])

\* Mutant: the helper forgets the filter.
for_tenant_unfiltered(table, clinic) ==
    IF clinic = None THEN {} ELSE DOMAIN table

\* TenantQuerySet.for_tenant over the ids of a table
for_tenant(table, clinic) ==
    IF clinic = None THEN {}
    ELSE {i \in DOMAIN table : table[i].clinic = clinic}

---------------------------------------------------------------------------
(* Permission classes of core/views.py *)

\* rest_framework.permissions.IsAuthenticated
IsAuthenticated(user) == user.is_authenticated

\* Mutant: the role check lets every authenticated role through.
IsClinicStaffOrReadOnly_has_permission_any_role(user) ==
    user.is_authenticated

IsClinicStaffOrReadOnly_has_permission(user) ==
    IF ~user.is_authenticated THEN FALSE
    ELSE IF user.is_superuser \/ user.role = SAAS_ADMIN THEN TRUE
    ELSE IF user.role = PATIENT THEN FALSE
    ELSE user.role \in {CLINIC_OWNER, SECRETARY, DOCTOR}

\* Mutant: the object-level check repeats the role check only.
IsClinicStaffOrReadOnly_has_object_permission_any_clinic(user, obj) ==
    user.is_superuser \/ user.role \in {SAAS_ADMIN, CLINIC_OWNER, SECRETARY, DOCTOR}

IsClinicStaffOrReadOnly_has_object_permission(user, obj) ==
    IF user.is_superuser \/ user.role = SAAS_ADMIN THEN TRUE
    ELSE user.clinic = obj.clinic

\* Mutant: the admin bypass is missing from the staff-management check.
IsClinicOwnerOrSaaSAdmin_has_permission_no_bypass(user) ==
    IF ~user.is_authenticated THEN FALSE
    ELSE user.role = CLINIC_OWNER

IsClinicOwnerOrSaaSAdmin_has_permission(user) ==
    IF ~user.is_authenticated THEN FALSE
    ELSE IF user.is_superuser \/ user.role = SAAS_ADMIN THEN TRUE
    ELSE user.role = CLINIC_OWNER

IsClinicOwnerOrSaaSAdmin_has_object_permission(user, obj) ==
    IF user.is_superuser \/ user.role = SAAS_ADMIN THEN TRUE
    ELSE obj.clinic = user.clinic

\* The permission_classes of PatientViewSet and AppointmentViewSet in the
\* order the framework evaluates them; the first failing class decides
\* the response.
StaffViewPermission(user, d, c) ==
    IF ~IsAuthenticated(user) THEN "not_authenticated"
    ELSE IF ~HasActiveConsent_has_permission(user, d, c) THEN "consent_required"
    ELSE IF ~IsClinicStaffOrReadOnly_has_permission(user) THEN "permission_denied"
    ELSE "ok"

Denied(op, user, why) ==
    Response(op, user, IF why = "not_authenticated" THEN 401 ELSE 403, why, None)

\* TenantMiddleware.process_request: the value of request.clinic
TenantMiddleware(user) ==
    IF user.is_authenticated THEN user.clinic ELSE None

\* getattr(request, "clinic", None) or getattr(user, "clinic", None)
RequestClinic(user, request_clinic) ==
    IF request_clinic # None THEN request_clinic ELSE user.clinic

\* Mutant: the viewset starts from every row of the table.
PatientViewSet_get_queryset_all_rows(user, request_clinic, p) == DOMAIN p

\* PatientViewSet.get_queryset
PatientViewSet_get_queryset(user, request_clinic, p) ==
    IF user.is_superuser \/ user.role = SAAS_ADMIN THEN DOMAIN p
    ELSE LET clinic == RequestClinic(user, request_clinic)
         IN  IF clinic = None THEN {} ELSE for_tenant(p, clinic)

---------------------------------------------------------------------------
(* LegalDocument administration: rows are created and (de)activated by   *)
(* operators through the ORM / admin site (core/admin.py, tests.py).     *)

Unchanged_identity == UNCHANGED <<users, tokens, outbox, reg>>
Unchanged_consent == UNCHANGED <<docs, consents>>
Unchanged_records ==
    UNCHANGED <<patients, nextPatientId, appointments, nextAppointmentId>>

\* LegalDocument.objects.create(version=..., doc_type=..., is_active=...)
DocCreate(key, active) ==
    LET r == LegalDocument_create(docs, key, active)
    IN  /\ r.ok => Cardinality(DOMAIN docs) < MaxDocs
        /\ docs' = r.docs
        /\ resp' = Response("doc_create", Operator,
                            IF r.ok THEN 201 ELSE 500,
                            IF r.ok THEN "ok" ELSE "IntegrityError",
                            None)
        /\ UNCHANGED <<consents, audit>>
        /\ Unchanged_identity /\ Unchanged_records

\* doc.is_active = active; doc.save()
DocSetActive(key, active) ==
    /\ key \in DOMAIN docs
    /\ LET r == LegalDocument_save(docs, key, active)
       IN  /\ docs' = r.docs
           /\ resp' = Response("doc_save", Operator,
                               IF r.ok THEN 200 ELSE 500,
                               IF r.ok THEN "ok" ELSE "IntegrityError",
                               None)
    /\ UNCHANGED <<consents, audit>>
    /\ Unchanged_identity /\ Unchanged_records

\* Command._ensure_demo_legal_docs: version "1.0" of every type, in the
\* order of docs_config; an IntegrityError aborts the command and keeps
\* what the earlier iterations wrote.
DocsConfig == <<"TERMS", "PRIVACY", "CONSENT">>
DemoVersion == 1

RECURSIVE ensure_demo_legal_docs(_, _)
ensure_demo_legal_docs(d, i) ==
    IF i > Len(DocsConfig) THEN [ok |-> TRUE, docs |-> d]
    ELSE LET key == <<DocsConfig[i], DemoVersion>>
             got == IF key \in DOMAIN d THEN [ok |-> TRUE, docs |-> d]
                    ELSE LegalDocument_create(d, key, TRUE)
             act == IF got.ok /\ ~got.docs[key]
                    THEN LegalDocument_save(got.docs, key, TRUE)
                    ELSE got
         IN  IF act.ok THEN ensure_demo_legal_docs(act.docs, i + 1)
             ELSE [ok |-> FALSE, docs |-> act.docs]

\* get_or_create of a UserConsent for every pair of a set, in any order
RECURSIVE get_or_create_all(_, _)
get_or_create_all(c, pairs) ==
    IF pairs = {} THEN [created |-> 0, consents |-> c]
    ELSE LET pr == CHOOSE x \in pairs : TRUE
             r == UserConsent_get_or_create(c, pr[1], pr[2])
             rest == get_or_create_all(r.consents, pairs \ {pr})
         IN  [created |-> rest.created + (IF r.created THEN 1 ELSE 0),
              consents |-> rest.consents]

DemoDocKeys == {<<DocsConfig[i], DemoVersion>> : i \in 1..Len(DocsConfig)}

\* Command._ensure_demo_legal_docs_and_consents
Bootstrap ==
    LET r == ensure_demo_legal_docs(docs, 1)
        c == get_or_create_all(consents, (DOMAIN users) \X DemoDocKeys)
    IN  /\ Cardinality(DOMAIN r.docs) <= MaxDocs
        /\ docs' = r.docs
        /\ consents' = IF r.ok THEN c.consents ELSE consents
        /\ resp' = Response("bootstrap", Operator,
                            IF r.ok THEN 200 ELSE 500,
                            IF r.ok THEN "ok" ELSE "IntegrityError",
                            IF r.ok THEN c.created ELSE 0)
        /\ UNCHANGED audit
        /\ Unchanged_identity /\ Unchanged_records

---------------------------------------------------------------------------
(* Consent endpoints *)

\* ConsentAcceptView.post
ConsentAccept_db(user, audit_ok) ==
    IF ~IsAuthenticated(user)
    THEN /\ resp' = Denied("consent_accept", user, "not_authenticated")
         /\ UNCHANGED <<docs, consents, audit>>
         /\ Unchanged_identity /\ Unchanged_records
    ELSE LET active == ActiveDocs(docs)
             r == get_or_create_all(consents, {user.id} \X active)
         IN  /\ Len(audit) < MaxAudit
             /\ consents' = r.consents
             /\ audit' = IF audit_ok THEN create_audit_log(audit, user, user.clinic,
                                          "LegalDocument", "*", "UPDATE") ELSE audit
             /\ resp' = IF audit_ok THEN Response("consent_accept", user, 201, "ok",
                                 [created |-> r.created,
                                  total_active |-> Cardinality(active)])
                        ELSE Response("consent_accept", user, 500,
                                      "DatabaseError", None)
             /\ UNCHANGED docs
             /\ Unchanged_identity /\ Unchanged_records

\* ConsentAccept when the insert into the audit table succeeds
ConsentAccept(user) ==
    ConsentAccept_db(user, TRUE)

\* PatientViewSet.list
PatientList(user, request_clinic) ==
    LET why == StaffViewPermission(user, docs, consents)
    IN  /\ resp' = IF why # "ok" THEN Denied("patient_list", user, why)
                   ELSE Response("patient_list", user, 200, "ok",
                            PatientViewSet_get_queryset(user, request_clinic,
                                                        patients))
        /\ UNCHANGED audit
        /\ Unchanged_consent /\ Unchanged_identity /\ Unchanged_records

---------------------------------------------------------------------------
(* PatientViewSet: staff CRUD of patient records *)

\* Raw national-ID inputs: non-empty strings of digits and punctuation.
RECURSIVE StringsUpTo(_)
StringsUpTo(n) ==
    IF n = 0 THEN {<<>>}
    ELSE LET shorter == StringsUpTo(n - 1)
         IN  shorter \cup {Append(w, ch) : w \in shorter, ch \in CpfChar}

Cpfs == StringsUpTo(MaxCpfLen) \ {<<>>}

PatientIds == 1..MaxPatients

\* GenericAPIView.get_object: the row is looked up in get_queryset() and
\* then passes check_object_permissions.
PatientViewSet_get_object(user, request_clinic, id) ==
    IF id \notin PatientViewSet_get_queryset(user, request_clinic, patients)
    THEN "not_found"
    ELSE IF ~IsClinicStaffOrReadOnly_has_object_permission(user, patients[id])
    THEN "permission_denied"
    ELSE "ok"

\* Appointment rows deleted with a patient (on_delete=CASCADE)
CascadePatient(appts, id) ==
    [a \in {x \in DOMAIN appts : appts[x].patient # id} |-> appts[a]]

\* PatientViewSet.create -> perform_create
PatientCreate_db(user, request_clinic, cpf, audit_ok) ==
    LET why == StaffViewPermission(user, docs, consents)
        clinic == RequestClinic(user, request_clinic)
        r == PatientProfile_create(patients, nextPatientId, clinic, cpf, NoUser)
    IN  /\ Unchanged_consent /\ Unchanged_identity
        /\ UNCHANGED <<appointments, nextAppointmentId>>
        /\ IF why # "ok"
           THEN /\ resp' = Denied("patient_create", user, why)
                /\ UNCHANGED <<patients, nextPatientId, audit>>
           ELSE IF clinic = None
           THEN /\ resp' = Response("patient_create", user, 400,
                                    "ValidationError", None)
                /\ UNCHANGED <<patients, nextPatientId, audit>>
           ELSE IF ~r.ok
           THEN /\ resp' = Response("patient_create", user, 500,
                                    "IntegrityError", [clinic |-> clinic, cpf |-> cpf])
                /\ UNCHANGED <<patients, nextPatientId, audit>>
           ELSE /\ nextPatientId <= MaxPatients
                /\ Len(audit) < MaxAudit
                /\ patients' = r.patients
                /\ nextPatientId' = nextPatientId + 1
                /\ audit' = IF audit_ok THEN create_audit_log(audit, user, clinic,
                                "PatientProfile", nextPatientId, "CREATE") ELSE audit
                /\ resp' = IF audit_ok THEN Response("patient_create", user, 201, "ok",
                                    [id |-> nextPatientId])
                        ELSE Response("patient_create", user, 500,
                                      "DatabaseError", None)

\* PatientCreate when the insert into the audit table succeeds
PatientCreate(user, request_clinic, cpf) ==
    PatientCreate_db(user, request_clinic, cpf, TRUE)

\* Serializer.to_internal_value: the fields of the request body that the
\* serializer declares and does not hold read-only.
to_internal_value(data, fields, read_only) ==
    [f \in (DOMAIN data \cap fields) \ read_only |-> data[f]]

\* ModelSerializer.update: setattr(instance, attr, value) for each
\* validated field.
ModelSerializer_update(instance, validated_data) ==
    [f \in DOMAIN instance |->
        IF f \in DOMAIN validated_data THEN validated_data[f]
        ELSE instance[f]]

\* The tenant and relations a request body supplied, echoed with the
\* response.
Supplied(data) ==
    [f \in DOMAIN data \cap {"clinic", "doctor", "patient"} |-> data[f]]

\* PatientProfileSerializer.Meta.fields
PatientProfileSerializer_fields == {"id", "cpf", "clinic", "user_id"}

\* Mutant: the clinic of a patient record is writable.
PatientProfileSerializer_read_only_fields_clinic_writable == {"id", "user_id"}

\* PatientProfileSerializer.Meta.read_only_fields
PatientProfileSerializer_read_only_fields == {"id", "clinic", "user_id"}

\* PatientViewSet.update / partial_update -> perform_update, for a request
\* body `data` that carries the cpf and possibly other fields
PatientViewSet_update(user, request_clinic, id, data, audit_ok) ==
    LET why == StaffViewPermission(user, docs, consents)
        obj == PatientViewSet_get_object(user, request_clinic, id)
        cpf == data.cpf
        validated_data == to_internal_value(data, PatientProfileSerializer_fields,
                              PatientProfileSerializer_read_only_fields)
        r == PatientProfile_save(patients, id,
                 ModelSerializer_update(patients[id], validated_data))
    IN  /\ Unchanged_consent /\ Unchanged_identity
        /\ UNCHANGED <<appointments, nextAppointmentId, nextPatientId>>
        /\ IF why # "ok"
           THEN /\ resp' = Denied("patient_update", user, why)
                /\ UNCHANGED <<patients, audit>>
           ELSE IF obj # "ok"
           THEN /\ resp' = Response("patient_update", user,
                                    IF obj = "not_found" THEN 404 ELSE 403,
                                    obj, None)
                /\ UNCHANGED <<patients, audit>>
           ELSE IF ~r.ok
           THEN /\ resp' = Response("patient_update", user, 500,
                                    "IntegrityError", [id |-> id, cpf |-> cpf])
                /\ UNCHANGED <<patients, audit>>
           ELSE /\ Len(audit) < MaxAudit
                /\ patients' = r.patients
                /\ audit' = IF audit_ok THEN create_audit_log(audit, user,
                                RequestClinic(user, request_clinic),
                                "PatientProfile", id, "UPDATE") ELSE audit
                /\ resp' = IF audit_ok THEN Response("patient_update", user, 200, "ok",
                                    [id |-> id] @@ Supplied(data))
                        ELSE Response("patient_update", user, 500,
                                      "DatabaseError", None)

\* PatientViewSet.update of the cpf alone
PatientUpdate_db(user, request_clinic, id, cpf, audit_ok) ==
    PatientViewSet_update(user, request_clinic, id, [cpf |-> cpf], audit_ok)

\* PatientUpdate when the insert into the audit table succeeds
PatientUpdate(user, request_clinic, id, cpf) ==
    PatientUpdate_db(user, request_clinic, id, cpf, TRUE)

\* PatientViewSet.destroy -> perform_destroy
PatientDelete_db(user, request_clinic, id, audit_ok) ==
    LET why == StaffViewPermission(user, docs, consents)
        obj == PatientViewSet_get_object(user, request_clinic, id)
    IN  /\ Unchanged_consent /\ Unchanged_identity
        /\ UNCHANGED <<nextPatientId, nextAppointmentId>>
        /\ IF why # "ok"
           THEN /\ resp' = Denied("patient_delete", user, why)
                /\ UNCHANGED <<patients, appointments, audit>>
           ELSE IF obj # "ok"
           THEN /\ resp' = Response("patient_delete", user,
                                    IF obj = "not_found" THEN 404 ELSE 403,
                                    obj, None)
                /\ UNCHANGED <<patients, appointments, audit>>
           ELSE /\ Len(audit) < MaxAudit
                /\ patients' = [i \in DOMAIN patients \ {id} |-> patients[i]]
                /\ appointments' = CascadePatient(appointments, id)
                /\ audit' = IF audit_ok THEN create_audit_log(audit, user,
                                RequestClinic(user, request_clinic),
                                "PatientProfile", id, "DELETE") ELSE audit
                /\ resp' = IF audit_ok THEN Response("patient_delete", user, 204, "ok",
                                    [id |-> id])
                        ELSE Response("patient_delete", user, 500,
                                      "DatabaseError", None)

\* PatientDelete when the insert into the audit table succeeds
PatientDelete(user, request_clinic, id) ==
    PatientDelete_db(user, request_clinic, id, TRUE)

---------------------------------------------------------------------------
(* AppointmentViewSet: staff CRUD of appointments *)

REQUESTED == "REQUESTED"

AppointmentRow(clinic, doctor, patient) ==
    [clinic |-> clinic, doctor |-> doctor, patient |-> patient,
     status |-> REQUESTED]

\* Mutant: a secretary without a bound doctor is shown the whole clinic.
AppointmentViewSet_get_queryset_fail_open(user, request_clinic, a) ==
    IF user.is_superuser \/ user.role = SAAS_ADMIN THEN DOMAIN a
    ELSE LET clinic == RequestClinic(user, request_clinic)
             qs == {i \in DOMAIN a : a[i].clinic = clinic}
         IN  IF clinic = None THEN {}
             ELSE IF user.role = DOCTOR
             THEN {i \in qs : a[i].doctor = user.id}
             ELSE IF user.role = SECRETARY /\ user.doctor_for_secretary # NoUser
             THEN {i \in qs : a[i].doctor = user.doctor_for_secretary}
             ELSE qs

\* AppointmentViewSet.get_queryset
AppointmentViewSet_get_queryset(user, request_clinic, a) ==
    IF user.is_superuser \/ user.role = SAAS_ADMIN THEN DOMAIN a
    ELSE LET clinic == RequestClinic(user, request_clinic)
             qs == {i \in DOMAIN a : a[i].clinic = clinic}
         IN  IF clinic = None THEN {}
             ELSE IF user.role = DOCTOR
             THEN {i \in qs : a[i].doctor = user.id}
             ELSE IF user.role = SECRETARY
             THEN IF user.doctor_for_secretary # NoUser
                  THEN {i \in qs : a[i].doctor = user.doctor_for_secretary}
                  ELSE {}
             ELSE qs

\* GenericAPIView.get_object on the appointment endpoints
AppointmentViewSet_get_object(user, request_clinic, id) ==
    IF id \notin AppointmentViewSet_get_queryset(user, request_clinic,
                                                 appointments)
    THEN "not_found"
    ELSE IF ~IsClinicStaffOrReadOnly_has_object_permission(user,
                                                          appointments[id])
    THEN "permission_denied"
    ELSE "ok"

\* Appointment.doctor: limit_choices_to role DOCTOR
AppointmentDoctors == {i \in DOMAIN users : users[i].role = DOCTOR}

\* AppointmentViewSet.list
AppointmentList(user, request_clinic) ==
    LET why == StaffViewPermission(user, docs, consents)
    IN  /\ resp' = IF why # "ok" THEN Denied("appointment_list", user, why)
                   ELSE Response("appointment_list", user, 200, "ok",
                            AppointmentViewSet_get_queryset(user,
                                request_clinic, appointments))
        /\ UNCHANGED audit
        /\ Unchanged_consent /\ Unchanged_identity /\ Unchanged_records

\* AppointmentViewSet.retrieve
AppointmentRetrieve(user, request_clinic, id) ==
    LET why == StaffViewPermission(user, docs, consents)
        obj == AppointmentViewSet_get_object(user, request_clinic, id)
    IN  /\ resp' = IF why # "ok" THEN Denied("appointment_retrieve", user, why)
                   ELSE IF obj # "ok"
                   THEN Response("appointment_retrieve", user,
                                 IF obj = "not_found" THEN 404 ELSE 403,
                                 obj, None)
                   ELSE Response("appointment_retrieve", user, 200, "ok",
                                 [id |-> id])
        /\ UNCHANGED audit
        /\ Unchanged_consent /\ Unchanged_identity /\ Unchanged_records

\* AppointmentViewSet.create -> perform_create
AppointmentCreate_db(user, request_clinic, doctor, patient, audit_ok) ==
    LET why == StaffViewPermission(user, docs, consents)
        clinic == RequestClinic(user, request_clinic)
        id == nextAppointmentId
    IN  /\ Unchanged_consent /\ Unchanged_identity
        /\ UNCHANGED <<patients, nextPatientId>>
        /\ IF why # "ok"
           THEN /\ resp' = Denied("appointment_create", user, why)
                /\ UNCHANGED <<appointments, nextAppointmentId, audit>>
           ELSE IF doctor \notin AppointmentDoctors
                   \/ patient \notin DOMAIN patients
                   \/ clinic = None
           THEN /\ resp' = Response("appointment_create", user, 400,
                                    "ValidationError", None)
                /\ UNCHANGED <<appointments, nextAppointmentId, audit>>
           ELSE /\ Len(audit) < MaxAudit
                /\ id <= MaxAppointments
                /\ appointments' =
                      [i \in DOMAIN appointments \cup {id} |->
                          IF i = id THEN AppointmentRow(clinic, doctor, patient)
                          ELSE appointments[i]]
                /\ nextAppointmentId' = id + 1
                /\ audit' = IF audit_ok THEN create_audit_log(audit, user, clinic,
                                "Appointment", id, "CREATE") ELSE audit
                /\ resp' = IF audit_ok THEN Response("appointment_create", user, 201, "ok",
                                    [id |-> id])
                        ELSE Response("appointment_create", user, 500,
                                      "DatabaseError", None)

\* AppointmentCreate when the insert into the audit table succeeds
AppointmentCreate(user, request_clinic, doctor, patient) ==
    AppointmentCreate_db(user, request_clinic, doctor, patient, TRUE)

\* AppointmentViewSet.destroy -> perform_destroy
AppointmentDelete_db(user, request_clinic, id, audit_ok) ==
    LET why == StaffViewPermission(user, docs, consents)
        obj == AppointmentViewSet_get_object(user, request_clinic, id)
    IN  /\ Unchanged_consent /\ Unchanged_identity
        /\ UNCHANGED <<patients, nextPatientId, nextAppointmentId>>
        /\ IF why # "ok"
           THEN /\ resp' = Denied("appointment_delete", user, why)
                /\ UNCHANGED <<appointments, audit>>
           ELSE IF obj # "ok"
           THEN /\ resp' = Response("appointment_delete", user,
                                    IF obj = "not_found" THEN 404 ELSE 403,
                                    obj, None)
                /\ UNCHANGED <<appointments, audit>>
           ELSE /\ Len(audit) < MaxAudit
                /\ appointments' =
                      [i \in DOMAIN appointments \ {id} |-> appointments[i]]
                /\ audit' = IF audit_ok THEN create_audit_log(audit, user,
                                RequestClinic(user, request_clinic),
                                "Appointment", id, "DELETE") ELSE audit
                /\ resp' = IF audit_ok THEN Response("appointment_delete", user, 204, "ok",
                                    [id |-> id])
                        ELSE Response("appointment_delete", user, 500,
                                      "DatabaseError", None)

\* AppointmentDelete when the insert into the audit table succeeds
AppointmentDelete(user, request_clinic, id) ==
    AppointmentDelete_db(user, request_clinic, id, TRUE)

\* send_email_verification / send_appointment_confirmation: one message
\* of the kind for the account or appointment.
Notification(kind, target) == [kind |-> kind, target |-> target]

CONFIRMED == "CONFIRMED"

COMPLETED == "COMPLETED"

\* Appointment.Status values drawn for the requests
AppointmentStatuses == {REQUESTED, CONFIRMED, COMPLETED}

\* AppointmentViewSet.perform_update, the condition of the WhatsApp hook,
\* from the status read before the save and the status saved; with the
\* hook fired on every save that leaves the appointment confirmed
status_changed_to_confirmed_any_save(old_status, new_status) ==
    new_status = CONFIRMED

\* AppointmentViewSet.perform_update, the condition of the WhatsApp hook,
\* from the status read before the save and the status saved
status_changed_to_confirmed(old_status, new_status) ==
    old_status # new_status /\ new_status = CONFIRMED

\* AppointmentSerializer.Meta.fields
AppointmentSerializer_fields == {"id", "clinic", "doctor", "patient", "status"}

\* AppointmentSerializer.Meta.read_only_fields
AppointmentSerializer_read_only_fields == {"id", "clinic"}

\* AppointmentSerializer.is_valid: the related fields name a row of their
\* querysets (doctor: limit_choices_to role DOCTOR; patient: every row).
AppointmentSerializer_is_valid(data) ==
    /\ "doctor" \in DOMAIN data => data.doctor \in AppointmentDoctors
    /\ "patient" \in DOMAIN data => data.patient \in DOMAIN patients

\* AppointmentViewSet.partial_update -> perform_update, with the WhatsApp
\* hook fired when the status changes to CONFIRMED, for a request body
\* `data`
AppointmentViewSet_update(user, request_clinic, id, data, audit_ok) ==
    LET why == StaffViewPermission(user, docs, consents)
        obj == AppointmentViewSet_get_object(user, request_clinic, id)
        validated_data == to_internal_value(data, AppointmentSerializer_fields,
                              AppointmentSerializer_read_only_fields)
        status == ModelSerializer_update(appointments[id], validated_data).status
    IN  /\ Unchanged_consent
        /\ UNCHANGED <<users, tokens, reg>>
        /\ UNCHANGED <<patients, nextPatientId, nextAppointmentId>>
        /\ IF why # "ok"
           THEN /\ resp' = Denied("appointment_update", user, why)
                /\ UNCHANGED <<appointments, audit, outbox>>
           ELSE IF obj # "ok"
           THEN /\ resp' = Response("appointment_update", user,
                                    IF obj = "not_found" THEN 404 ELSE 403,
                                    obj, None)
                /\ UNCHANGED <<appointments, audit, outbox>>
           ELSE IF ~AppointmentSerializer_is_valid(data)
           THEN /\ resp' = Response("appointment_update", user, 400,
                                    "ValidationError", None)
                /\ UNCHANGED <<appointments, audit, outbox>>
           ELSE /\ Len(audit) < MaxAudit
                /\ appointments' =
                      [appointments EXCEPT
                          ![id] = ModelSerializer_update(@, validated_data)]
                /\ audit' = IF audit_ok THEN create_audit_log(audit, user,
                                RequestClinic(user, request_clinic),
                                "Appointment", id, "UPDATE") ELSE audit
                /\ outbox' =
                      IF audit_ok
                         /\ status_changed_to_confirmed(appointments[id].status, status)
                      THEN outbox \cup
                              {Notification("appointment_confirmation", id)}
                      ELSE outbox
                /\ resp' = IF audit_ok THEN Response("appointment_update", user, 200, "ok",
                                    [id |-> id] @@ Supplied(data))
                        ELSE Response("appointment_update", user, 500,
                                      "DatabaseError", None)

\* AppointmentViewSet.partial_update of the status alone
AppointmentUpdate_db(user, request_clinic, id, status, audit_ok) ==
    AppointmentViewSet_update(user, request_clinic, id, [status |-> status],
                              audit_ok)

\* AppointmentUpdate when the insert into the audit table succeeds
AppointmentUpdate(user, request_clinic, id, status) ==
    AppointmentUpdate_db(user, request_clinic, id, status, TRUE)

\* user.patient_profile: the ids of the PatientProfile rows of the account
PatientProfileOf(user) == {i \in DOMAIN patients : patients[i].user = user.id}

\* The start_time and end_time values of the requests
TimeInputs == {1, 2, 3}

\* Mutant: the doctor is looked up by id alone, whatever its role and clinic.
AppointmentRequestSerializer_validate_any_doctor(user, doctor_id, start_time, end_time) ==
    IF ~user.is_authenticated THEN "not_authenticated"
    ELSE IF user.role # PATIENT THEN "role"
    ELSE IF user.clinic = None THEN "clinic"
    ELSE IF PatientProfileOf(user) = {} THEN "patient_profile"
    ELSE IF doctor_id \notin DOMAIN users THEN "doctor_id"
    ELSE IF end_time <= start_time THEN "end_time"
    ELSE "ok"

\* AppointmentRequestSerializer.validate
AppointmentRequestSerializer_validate(user, doctor_id, start_time, end_time) ==
    IF ~user.is_authenticated THEN "not_authenticated"
    ELSE IF user.role # PATIENT THEN "role"
    ELSE IF user.clinic = None THEN "clinic"
    ELSE IF PatientProfileOf(user) = {} THEN "patient_profile"
    ELSE IF ~(/\ doctor_id \in DOMAIN users
              /\ users[doctor_id].role = DOCTOR
              /\ users[doctor_id].clinic = user.clinic) THEN "doctor_id"
    ELSE IF end_time <= start_time THEN "end_time"
    ELSE "ok"

\* AppointmentRequestSerializer.create: the row of Appointment.objects.create
AppointmentRequestSerializer_create(clinic, doctor, patient, start_time, end_time) ==
    [f \in DOMAIN AppointmentRow(clinic, doctor, patient)
            \cup {"start_time", "end_time", "clinical_notes"} |->
        IF f = "start_time" THEN start_time
        ELSE IF f = "end_time" THEN end_time
        ELSE IF f = "clinical_notes" THEN ""
        ELSE AppointmentRow(clinic, doctor, patient)[f]]

\* AppointmentRequestView.permission_classes
AppointmentRequestPermission(user, d, c) ==
    IF ~IsAuthenticated(user) THEN "not_authenticated"
    ELSE IF ~HasActiveConsent_has_permission(user, d, c) THEN "consent_required"
    ELSE "ok"

\* AppointmentRequestView.post, for a request with the fields doctor_id,
\* start_time and end_time
AppointmentRequestView_post(user, doctor_id, start_time, end_time, audit_ok) ==
    LET why == AppointmentRequestPermission(user, docs, consents)
        v == AppointmentRequestSerializer_validate(user, doctor_id,
                                                   start_time, end_time)
        id == nextAppointmentId
        patient == CHOOSE i \in PatientProfileOf(user) : TRUE
    IN  /\ Unchanged_consent /\ Unchanged_identity
        /\ UNCHANGED <<patients, nextPatientId>>
        /\ IF why # "ok"
           THEN /\ resp' = Denied("appointment_request", user, why)
                /\ UNCHANGED <<appointments, nextAppointmentId, audit>>
           ELSE IF user.role # PATIENT
           THEN /\ resp' = Denied("appointment_request", user,
                                  "permission_denied")
                /\ UNCHANGED <<appointments, nextAppointmentId, audit>>
           ELSE IF v # "ok"
           THEN /\ resp' = Response("appointment_request", user, 400,
                                    "ValidationError", v)
                /\ UNCHANGED <<appointments, nextAppointmentId, audit>>
           ELSE /\ Len(audit) < MaxAudit
                /\ id <= MaxAppointments
                /\ appointments' =
                      [i \in DOMAIN appointments \cup {id} |->
                          IF i = id
                          THEN AppointmentRequestSerializer_create(
                                   user.clinic, doctor_id, patient,
                                   start_time, end_time)
                          ELSE appointments[i]]
                /\ nextAppointmentId' = id + 1
                /\ audit' = IF audit_ok THEN create_audit_log(audit, user, user.clinic,
                                "Appointment", id, "CREATE") ELSE audit
                /\ resp' = IF audit_ok THEN Response("appointment_request", user, 201, "ok",
                                    [id |-> id])
                        ELSE Response("appointment_request", user, 500,
                                      "DatabaseError", None)

\* AppointmentRequestView.post of a request whose end_time is after its
\* start_time (times_ok) or equal to it
AppointmentRequest_db(user, doctor_id, times_ok, audit_ok) ==
    AppointmentRequestView_post(user, doctor_id, 1,
                                IF times_ok THEN 2 ELSE 1, audit_ok)

\* AppointmentRequest when the insert into the audit table succeeds
AppointmentRequest(user, doctor_id, times_ok) ==
    AppointmentRequest_db(user, doctor_id, times_ok, TRUE)

\* PatientViewSet.retrieve
PatientRetrieve(user, request_clinic, id) ==
    LET why == StaffViewPermission(user, docs, consents)
        obj == PatientViewSet_get_object(user, request_clinic, id)
    IN  /\ resp' = IF why # "ok" THEN Denied("patient_retrieve", user, why)
                   ELSE IF obj # "ok"
                   THEN Response("patient_retrieve", user,
                                 IF obj = "not_found" THEN 404 ELSE 403,
                                 obj, None)
                   ELSE Response("patient_retrieve", user, 200, "ok",
                                 [id |-> id])
        /\ UNCHANGED audit
        /\ Unchanged_consent /\ Unchanged_identity /\ Unchanged_records

\* Request paths, and those that start with one of EXEMPT_PATH_PREFIXES
Paths == {"/api/patients/", "/api/consent/accept/",
          "/api/consent/active-docs/", "/api/auth/login/", "/admin/"}
ExemptPaths == {"/api/auth/login/", "/admin/"}

\* ConsentRequiredMiddleware.process_view: None (the request goes on) or
\* the 403 CONSENT_REQUIRED response
ConsentRequiredMiddleware_process_view(path, user, d, c) ==
    IF path \in ExemptPaths THEN None
    ELSE IF ~user.is_authenticated THEN None
    ELSE IF user.role = SAAS_ADMIN THEN None
    ELSE IF ~has_active_consent(user, d, c) THEN "consent_required"
    ELSE None

\* A request of a session-authenticated user passing the middleware
ProcessView(user, path) ==
    LET blocked == ConsentRequiredMiddleware_process_view(path, user, docs,
                                                          consents)
    IN  /\ resp' = IF blocked # None
                   THEN Response("process_view", user, 403, blocked, path)
                   ELSE Response("process_view", user, 200, "ok", path)
        /\ UNCHANGED audit
        /\ Unchanged_consent /\ Unchanged_identity /\ Unchanged_records

\* The tenant-scoped objects of the store, by model name.
StoredObjects(kind) ==
    IF kind = "PatientProfile" THEN patients
    ELSE IF kind = "Appointment" THEN appointments
    ELSE users

ObjectKinds == {"PatientProfile", "Appointment", "CustomUser"}

\* APIView.check_object_permissions: has_object_permission of the two
\* permission classes applied to request.user and a stored object.
CheckObjectPermissions(user, kind, id) ==
    LET obj == StoredObjects(kind)[id]
    IN  /\ id \in DOMAIN StoredObjects(kind)
        /\ resp' = Response("check_object_permissions", user, 200, "ok",
                      [kind |-> kind, id |-> id,
                       staff |-> IsClinicStaffOrReadOnly_has_object_permission(
                                     user, obj),
                       owner |-> IsClinicOwnerOrSaaSAdmin_has_object_permission(
                                     user, obj)])
        /\ UNCHANGED audit
        /\ Unchanged_consent /\ Unchanged_identity /\ Unchanged_records

---------------------------------------------------------------------------
(* PatientRegisterView: public patient registration.  The view runs      *)
(* outside any transaction, so each statement of the serializer commits  *)
(* on its own and requests interleave between statements.                *)

RegProcs == 1..MaxRegs
TokenCodes == 1..MaxCodes

RegIdle ==
    [pc |-> "start", clinic |-> None, email |-> None, cpf |-> <<>>,
     user |-> NoUser, patient |-> 0, error |-> None,
     agree |-> <<FALSE, FALSE, FALSE>>]

\* CustomUser.objects.create_user(username=email, email=email, clinic=...,
\* role=PATIENT, is_active=False)
RegisteredUser(id, email, clinic) ==
    [id |-> id, role |-> PATIENT, clinic |-> clinic, is_superuser |-> FALSE,
     doctor_for_secretary |-> NoUser, is_authenticated |-> TRUE,
     username |-> email, email |-> email, is_active |-> FALSE,
     is_verified |-> FALSE]

HasField(row, f) == f \in DOMAIN row

EmailTaken(u, email) ==
    \E i \in DOMAIN u : HasField(u[i], "email") /\ u[i].email = email

UsernameTaken(u, username) ==
    \E i \in DOMAIN u : HasField(u[i], "username") /\ u[i].username = username

\* Mutant: only the terms flag is required.
PatientRegistrationSerializer_validate_terms_only(schema, email, cpf, password_ok, agree) ==
    IF schema \notin Clinic THEN "clinic_schema_name"
    ELSE IF EmailTaken(users, email) THEN "email"
    ELSE IF \E i \in DOMAIN patients :
               /\ patients[i].clinic = schema
               /\ patients[i].cpf_hash = make_cpf_hash(cpf) THEN "cpf"
    ELSE IF ~password_ok THEN "password_confirm"
    ELSE IF ~agree[1] THEN "detail"
    ELSE "ok"

\* PatientRegistrationSerializer.validate: the first failing check, or "ok"
PatientRegistrationSerializer_validate(schema, email, cpf, password_ok, agree) ==
    IF schema \notin Clinic THEN "clinic_schema_name"
    ELSE IF EmailTaken(users, email) THEN "email"
    ELSE IF \E i \in DOMAIN patients :
               /\ patients[i].clinic = schema
               /\ patients[i].cpf_hash = make_cpf_hash(cpf) THEN "cpf"
    ELSE IF ~password_ok THEN "password_confirm"
    ELSE IF ~(agree[1] /\ agree[2] /\ agree[3]) THEN "detail"
    ELSE "ok"

Unchanged_admin == UNCHANGED <<docs, appointments, nextAppointmentId, audit>>

\* serializer.is_valid(raise_exception=True)
RegValidate(p, schema, email, cpf, password_ok, agree) ==
    LET v == PatientRegistrationSerializer_validate(schema, email, cpf,
                                                    password_ok, agree)
    IN  /\ reg[p].pc = "start"
        /\ IF v = "ok"
           THEN /\ reg' = [reg EXCEPT ![p] = [RegIdle EXCEPT
                              !.pc = "validated", !.clinic = schema,
                              !.email = email, !.cpf = cpf,
                              !.agree = agree]]
                /\ UNCHANGED resp
           ELSE /\ reg' = [reg EXCEPT ![p] = [RegIdle EXCEPT
                              !.pc = "rejected", !.error = v]]
                /\ resp' = Response("patient_register", AnonymousUser, 400,
                                    "ValidationError", v)
        /\ UNCHANGED <<users, tokens, outbox, consents, patients, nextPatientId>>
        /\ Unchanged_admin

\* create(): CustomUser.objects.create_user(...); user.save()
RegCreateUser(p) ==
    LET r == reg[p]
        id == Cardinality(DOMAIN users) + 1
    IN  /\ r.pc = "validated"
        /\ IF UsernameTaken(users, r.email)
           THEN /\ reg' = [reg EXCEPT ![p].pc = "failed",
                                      ![p].error = "IntegrityError"]
                /\ resp' = Response("patient_register", AnonymousUser, 500,
                                    "IntegrityError", p)
                /\ UNCHANGED users
           ELSE /\ users' = [i \in DOMAIN users \cup {id} |->
                               IF i = id THEN RegisteredUser(id, r.email, r.clinic)
                               ELSE users[i]]
                /\ reg' = [reg EXCEPT ![p].pc = "user_created", ![p].user = id]
                /\ UNCHANGED resp
        /\ UNCHANGED <<tokens, outbox, consents, patients, nextPatientId>>
        /\ Unchanged_admin

\* create(): PatientProfile.objects.create(user=user, clinic=clinic, cpf=cpf)
RegCreatePatient(p) ==
    LET r == reg[p]
        w == PatientProfile_create(patients, nextPatientId, r.clinic, r.cpf,
                                   r.user)
    IN  /\ r.pc = "user_created"
        /\ IF ~w.ok
           THEN /\ reg' = [reg EXCEPT ![p].pc = "failed",
                                      ![p].error = "IntegrityError"]
                /\ resp' = Response("patient_register", AnonymousUser, 500,
                                    "IntegrityError", p)
                /\ UNCHANGED <<patients, nextPatientId>>
           ELSE /\ nextPatientId <= MaxPatients
                /\ patients' = w.patients
                /\ nextPatientId' = nextPatientId + 1
                /\ reg' = [reg EXCEPT ![p].pc = "patient_created",
                                      ![p].patient = nextPatientId]
                /\ UNCHANGED resp
        /\ UNCHANGED <<users, tokens, outbox, consents>>
        /\ Unchanged_admin

TokenRow(uid, code) == [user |-> uid, token |-> code, is_used |-> FALSE]

UsedCodes == {t.token : t \in tokens}

\* create(): the consents for the active documents, then
\* EmailVerificationToken.generate_code_for_user (a random code, redrawn on
\* a collision, RuntimeError after five collisions); the view then sends
\* the e-mail and answers 201.
RegFinish(p) ==
    LET r == reg[p]
        c == get_or_create_all(consents, {r.user} \X ActiveDocs(docs))
    IN  /\ r.pc = "patient_created"
        /\ consents' = c.consents
        /\ \/ \E code \in TokenCodes \ UsedCodes :
                /\ tokens' = tokens \cup {TokenRow(r.user, code)}
                /\ outbox' = outbox \cup
                      {Notification("email_verification", r.user)}
                /\ reg' = [reg EXCEPT ![p].pc = "done"]
                /\ resp' = Response("patient_register", AnonymousUser, 201,
                                    "ok", p)
           \/ /\ UsedCodes # {}
              /\ UNCHANGED <<tokens, outbox>>
              /\ reg' = [reg EXCEPT ![p].pc = "failed",
                                    ![p].error = "RuntimeError"]
              /\ resp' = Response("patient_register", AnonymousUser, 500,
                                  "RuntimeError", p)
        /\ UNCHANGED <<users, patients, nextPatientId>>
        /\ Unchanged_admin

---------------------------------------------------------------------------
(* StaffUserViewSet: management of staff accounts *)

\* Clinic rows: the active clinics and one that is_active = False.
InactiveClinics == {"C"}
ClinicRows == Clinic \cup InactiveClinics

\* A stored account with the columns the staff endpoints read and write.
StaffRow(id, role, clinic, su, email) ==
    [id |-> id, role |-> role, clinic |-> clinic, is_superuser |-> su,
     doctor_for_secretary |-> NoUser, is_authenticated |-> TRUE,
     username |-> email, email |-> email, is_active |-> TRUE,
     is_verified |-> FALSE]

\* The accounts present before any staff request of the model.
StaffAccounts ==
    <<StaffRow(1, CLINIC_OWNER, "A", FALSE, "owner_a@example.com"),
      StaffRow(2, SAAS_ADMIN, None, FALSE, "admin@example.com"),
      StaffRow(3, SECRETARY, "A", FALSE, "sec_a@example.com"),
      StaffRow(4, DOCTOR, "B", FALSE, "doc_b@example.com"),
      StaffRow(5, PATIENT, "A", FALSE, "patient_a@example.com"),
      StaffRow(6, DOCTOR, "A", TRUE, "root@example.com"),
      StaffRow(7, CLINIC_OWNER, None, FALSE, "owner_none@example.com")>>

\* StaffUserViewSet.permission_classes, in order
StaffManagementPermission(user, d, c) ==
    IF ~IsAuthenticated(user) THEN "not_authenticated"
    ELSE IF ~HasActiveConsent_has_permission(user, d, c) THEN "consent_required"
    ELSE IF ~IsClinicOwnerOrSaaSAdmin_has_permission(user) THEN "permission_denied"
    ELSE "ok"

\* StaffUserViewSet.get_queryset; clinic_param is the ?clinic= parameter
StaffUserViewSet_get_queryset(user, clinic_param, u) ==
    LET qs == {i \in DOMAIN u : u[i].role # SAAS_ADMIN}
    IN  IF user.is_superuser \/ user.role = SAAS_ADMIN
        THEN IF clinic_param # None
             THEN {i \in qs : u[i].clinic = clinic_param}
             ELSE qs
        ELSE IF user.role = CLINIC_OWNER /\ user.clinic # None
        THEN {i \in qs : u[i].clinic = user.clinic}
        ELSE {}

\* StaffUserSerializer.validate_role; None is an omitted field
StaffUserSerializer_validate_role(role) ==
    role = None \/ role \notin {SAAS_ADMIN, PATIENT}

\* Mutant: a clinic owner may name the clinic like an admin.
StaffUserSerializer_validate_owner_names_clinic(user, role, clinic_id, crm) ==
    IF ~user.is_authenticated THEN [ok |-> FALSE, clinic |-> None]
    ELSE IF user.role \in {SAAS_ADMIN, CLINIC_OWNER} \/ user.is_superuser
    THEN IF clinic_id = None \/ clinic_id \notin Clinic
         THEN [ok |-> FALSE, clinic |-> None]
         ELSE [ok |-> ~(role # DOCTOR /\ crm), clinic |-> clinic_id]
    ELSE [ok |-> FALSE, clinic |-> None]

\* StaffUserSerializer.validate: whether it passes, and attrs["clinic"]
StaffUserSerializer_validate(user, role, clinic_id, crm) ==
    IF ~user.is_authenticated THEN [ok |-> FALSE, clinic |-> None]
    ELSE IF user.role = SAAS_ADMIN \/ user.is_superuser
    THEN IF clinic_id = None THEN [ok |-> FALSE, clinic |-> None]
         ELSE IF clinic_id \notin Clinic THEN [ok |-> FALSE, clinic |-> None]
         ELSE [ok |-> ~(role # DOCTOR /\ crm), clinic |-> clinic_id]
    ELSE IF user.role = CLINIC_OWNER
    THEN IF user.clinic = None THEN [ok |-> FALSE, clinic |-> None]
         ELSE [ok |-> ~(role # DOCTOR /\ crm), clinic |-> user.clinic]
    ELSE [ok |-> FALSE, clinic |-> None]

\* CustomUser.role: default=Role.PATIENT
DefaultRole == PATIENT

StaffRequest(id, role, clinic_id) ==
    [id |-> id, role |-> role, clinic_id |-> clinic_id]

\* The values of the crm and specialty fields of a request; "" is an
\* omitted or blank field.
CrmInputs == {"", "CRM-1"}
SpecialtyInputs == {"", "Cardiologia"}

\* Mutant: the profile is stored without the values of the request.
DoctorProfile_update_or_create_blank(row, crm, specialty) ==
    [f \in DOMAIN row \cup {"doctor_profile"} |->
        IF f = "doctor_profile" THEN [crm |-> "", specialty |-> ""]
        ELSE row[f]]

\* DoctorProfile.objects.update_or_create(user=..., defaults={"crm": crm
\* or "", "specialty": specialty or ""}): the one profile of the account
\* (OneToOneField), kept with its row.
DoctorProfile_update_or_create(row, crm, specialty) ==
    [f \in DOMAIN row \cup {"doctor_profile"} |->
        IF f = "doctor_profile" THEN [crm |-> crm, specialty |-> specialty]
        ELSE row[f]]

\* StaffUserViewSet.create -> StaffUserSerializer.create, for a request
\* with the fields role, clinic_id, email, crm, specialty and is_active
\* (role None, is_active <<>>: omitted)
StaffUserViewSet_create(user, role, clinic_id, email, crm, specialty, is_active) ==
    LET why == StaffManagementPermission(user, docs, consents)
        v == StaffUserSerializer_validate(user, role, clinic_id,
                                          crm # "" \/ specialty # "")
        id == Cardinality(DOMAIN users) + 1
        req == StaffRequest(id, role, clinic_id)
        created == [StaffRow(id, IF role = None THEN DefaultRole ELSE role,
                             v.clinic, FALSE, email)
                       EXCEPT !.is_active =
                          IF is_active = <<>> THEN TRUE ELSE is_active[1]]
    IN  /\ UNCHANGED <<tokens, outbox, reg, audit>>
        /\ Unchanged_consent /\ Unchanged_records
        /\ IF why # "ok"
           THEN /\ resp' = Denied("staff_create", user, why)
                /\ UNCHANGED users
           ELSE IF ~StaffUserSerializer_validate_role(role) \/ ~v.ok
           THEN /\ resp' = Response("staff_create", user, 400,
                                    "ValidationError", req)
                /\ UNCHANGED users
           ELSE IF UsernameTaken(users, email)
           THEN /\ resp' = Response("staff_create", user, 500,
                                    "IntegrityError", req)
                /\ UNCHANGED users
           ELSE /\ users' = [i \in DOMAIN users \cup {id} |->
                      IF i = id
                      THEN IF created.role = DOCTOR
                           THEN DoctorProfile_update_or_create(created, crm,
                                                               specialty)
                           ELSE created
                      ELSE users[i]]
                /\ resp' = Response("staff_create", user, 201, "ok", req)

\* StaffUserViewSet.create of a request that leaves is_active and
\* specialty out; crm is whether a license id is supplied
StaffCreate(user, role, clinic_id, email, crm) ==
    StaffUserViewSet_create(user, role, clinic_id, email,
                            IF crm THEN "CRM-1" ELSE "", "", <<>>)

\* GenericAPIView.get_object on the staff endpoints
StaffUserViewSet_get_object(user, id) ==
    IF id \notin StaffUserViewSet_get_queryset(user, None, users)
    THEN "not_found"
    ELSE IF ~IsClinicOwnerOrSaaSAdmin_has_object_permission(user, users[id])
    THEN "permission_denied"
    ELSE "ok"

\* StaffUserViewSet.partial_update -> StaffUserSerializer.update, for a
\* request with the fields role, clinic_id, crm, specialty and is_active
\* (role None, is_active <<>>: omitted)
StaffUserViewSet_partial_update(user, id, role, clinic_id, crm, specialty, is_active) ==
    LET why == StaffManagementPermission(user, docs, consents)
        obj == StaffUserViewSet_get_object(user, id)
        v == StaffUserSerializer_validate(user, role, clinic_id,
                                          crm # "" \/ specialty # "")
        req == StaffRequest(id, role, clinic_id)
        saved == [users[id] EXCEPT
                     !.role = IF role = None THEN @ ELSE role,
                     !.is_active = IF is_active = <<>> THEN @ ELSE is_active[1]]
    IN  /\ UNCHANGED <<tokens, outbox, reg, audit>>
        /\ Unchanged_consent /\ Unchanged_records
        /\ IF why # "ok"
           THEN /\ resp' = Denied("staff_update", user, why)
                /\ UNCHANGED users
           ELSE IF obj # "ok"
           THEN /\ resp' = Response("staff_update", user,
                                    IF obj = "not_found" THEN 404 ELSE 403,
                                    obj, None)
                /\ UNCHANGED users
           ELSE IF ~StaffUserSerializer_validate_role(role) \/ ~v.ok
           THEN /\ resp' = Response("staff_update", user, 400,
                                    "ValidationError", req)
                /\ UNCHANGED users
           ELSE /\ users' = [users EXCEPT ![id] =
                                IF saved.role = DOCTOR
                                THEN DoctorProfile_update_or_create(saved, crm,
                                                                    specialty)
                                ELSE saved]
                /\ resp' = Response("staff_update", user, 200, "ok", req)

\* StaffUserViewSet.partial_update of a request that leaves is_active and
\* specialty out; crm is whether a license id is supplied
StaffUpdate(user, id, role, clinic_id, crm) ==
    StaffUserViewSet_partial_update(user, id, role, clinic_id,
                                    IF crm THEN "CRM-1" ELSE "", "", <<>>)

\* StaffUserViewSet.list
StaffList(user, clinic_param) ==
    LET why == StaffManagementPermission(user, docs, consents)
    IN  /\ resp' = IF why # "ok" THEN Denied("staff_list", user, why)
                   ELSE Response("staff_list", user, 200, "ok",
                            StaffUserViewSet_get_queryset(user, clinic_param,
                                                          users))
        /\ UNCHANGED <<users, tokens, outbox, reg, audit>>
        /\ Unchanged_consent /\ Unchanged_records

---------------------------------------------------------------------------
(* The consent subsystem: document administration, bootstrap, accept and *)
(* a consent-guarded endpoint, over a population of stored users.        *)

\* The stored users of the consent scenarios: the secretary of
\* ConsentPermissionTests.setUp and a platform admin (seed
\* _create_saas_admins).
ConsentUsers ==
    <<UserRow(1, SECRETARY, "A", FALSE, NoUser),
      UserRow(2, SAAS_ADMIN, None, FALSE, NoUser)>>

InitResp == Response("none", Operator, 0, "ok", None)

EmptyStore ==
    /\ docs = <<>>
    /\ consents = EmptyBag
    /\ patients = <<>>
    /\ nextPatientId = 1
    /\ appointments = <<>>
    /\ nextAppointmentId = 1
    /\ audit = <<>>
    /\ tokens = {}
    /\ outbox = {}
    /\ reg = <<>>
    /\ resp = InitResp

InitConsent ==
    /\ users = ConsentUsers
    /\ EmptyStore

StoredPrincipals == {users[i] : i \in DOMAIN users} \cup {AnonymousUser}

NextConsent ==
    \/ \E key \in DocKeys, active \in BOOLEAN : DocCreate(key, active)
    \/ \E key \in DocKeys, active \in BOOLEAN : DocSetActive(key, active)
    \/ Bootstrap
    \/ \E user \in StoredPrincipals : ConsentAccept(user)
    \/ \E user \in StoredPrincipals : PatientList(user, TenantMiddleware(user))

SpecConsent == InitConsent /\ [][NextConsent]_vars

---------------------------------------------------------------------------
(* Properties of the consent subsystem *)

\* The principal holds a ConsentRecord for every currently-active document.
CoversActive(uid) ==
    \A k \in ActiveDocs(docs) : BagIn(ConsentRow(uid, k), consents)

CoversActiveNext(uid) ==
    \A k \in ActiveDocs(docs') : BagIn(ConsentRow(uid, k), consents')

StoredUsers == {users[i] : i \in DOMAIN users}

\* C2: hasActiveConsent(P) is true when no document is active, and
\* otherwise exactly when P holds a ConsentRecord for every active
\* document, whatever records P holds for inactive documents; a guarded
\* request by a principal without the admin bypass is refused for missing
\* consent exactly in the other case.
C2_ConsentCompleteness ==
    /\ \A u \in StoredUsers :
          /\ ActiveDocs(docs) = {} => has_active_consent(u, docs, consents)
          /\ has_active_consent(u, docs, consents) <=> CoversActive(u.id)
    /\ (resp.op = "patient_list" /\ resp.user.is_authenticated
            /\ ~IsAdmin(resp.user))
          => (resp.detail = "consent_required" <=> ~CoversActive(resp.user.id))

\* C2 witness: two documents are active, the principal holds a record for
\* one of them and one for an inactive document, and the guarded request
\* it just made was refused for missing consent.
C2_Witness ==
    /\ resp.op = "patient_list" /\ resp.detail = "consent_required"
    /\ Cardinality(ActiveDocs(docs)) = 2
    /\ \E k \in ActiveDocs(docs) : BagIn(ConsentRow(resp.user.id, k), consents)
    /\ \E k \in DOMAIN docs \ ActiveDocs(docs) :
          BagIn(ConsentRow(resp.user.id, k), consents)

\* A step in which ConsentAcceptView.post ran to completion.
AcceptStep == audit' # audit /\ resp'.op = "consent_accept"

\* A step that makes active a document the principal holds no record for.
ActivatesUnaccepted(uid) ==
    \E k \in ActiveDocs(docs') \ ActiveDocs(docs) :
        ~BagIn(ConsentRow(uid, k), consents')

\* C3 as stated: after accept hasActiveConsent(U) is true; activating a
\* new version makes it false and guarded requests by U are denied; it
\* stays false until U calls accept again.
C3_Original ==
    [][\A u \in StoredUsers :
          /\ (AcceptStep /\ resp'.user = u)
                => has_active_consent(u, docs', consents')
          /\ ActivatesUnaccepted(u.id)
                => ~has_active_consent(u, docs', consents')
          /\ (resp'.op = "patient_list" /\ resp'.user = u
                /\ ~has_active_consent(u, docs', consents'))
                => resp'.status = 403
          /\ (~has_active_consent(u, docs, consents)
                /\ has_active_consent(u, docs', consents'))
                => (AcceptStep /\ resp'.user = u)]_vars

\* C3 amended: as above, but the denial holds for principals without the
\* admin bypass, and hasActiveConsent(U) stays false only while the set of
\* active documents is unchanged, until consent records are written for U
\* (accept by U, or the demo bootstrap).
C3_ReconsentSequence ==
    [][\A u \in StoredUsers :
          /\ (AcceptStep /\ resp'.user = u)
                => has_active_consent(u, docs', consents')
          /\ ActivatesUnaccepted(u.id)
                => ~has_active_consent(u, docs', consents')
          /\ (resp'.op = "patient_list" /\ resp'.user = u /\ ~IsAdmin(u)
                /\ ~has_active_consent(u, docs', consents'))
                => (resp'.status = 403 /\ resp'.detail = "consent_required")
          /\ (~has_active_consent(u, docs, consents)
                /\ has_active_consent(u, docs', consents')
                /\ ActiveDocs(docs') = ActiveDocs(docs))
                => \/ AcceptStep /\ resp'.user = u
                   \/ resp'.op = "bootstrap"]_vars

\* C3 witness: the principal accepted a first version, a second version of
\* the same type replaced it, and the principal has just accepted again.
C3_Witness ==
    /\ resp.op = "consent_accept" /\ resp.status = 201
    /\ resp.data.created = 1
    /\ ~IsAdmin(resp.user)
    /\ \E k \in ActiveDocs(docs) : \E j \in DOMAIN docs :
          /\ j[1] = k[1] /\ ~docs[j]
          /\ BagIn(ConsentRow(resp.user.id, j), consents)
          /\ BagIn(ConsentRow(resp.user.id, k), consents)

\* The rows accept has to create for a principal: one per active document
\* the principal has no record for.
Lacking(uid) ==
    {ConsentRow(uid, k) : k \in {j \in ActiveDocs(docs) :
                                   ~BagIn(ConsentRow(uid, j), consents)}}

\* C4: accept creates a ConsentRecord exactly for each active document
\* the principal has no record for and reports their number and the
\* number of active documents; called again by a principal that already
\* holds them all it creates nothing and returns createdCount = 0.
C4_AcceptIdempotent ==
    [][AcceptStep =>
         LET uid == resp'.user.id
         IN  /\ consents' = consents (+) SetToBag(Lacking(uid))
             /\ resp'.data.created = Cardinality(Lacking(uid))
             /\ resp'.data.total_active = Cardinality(ActiveDocs(docs))
             /\ (resp.op = "consent_accept" /\ resp.status = 201
                    /\ resp.user.id = uid)
                  => (consents' = consents /\ resp'.data.created = 0)]_vars

\* C4 witness: the second of two accept calls by one principal, with a
\* document active, returned created = 0.
C4_Witness ==
    /\ resp.op = "consent_accept" /\ resp.status = 201
    /\ resp.data.created = 0 /\ resp.data.total_active >= 1
    /\ Len(audit) >= 2
    /\ audit[Len(audit)].actor = resp.user.id
    /\ audit[Len(audit) - 1].actor = resp.user.id
    /\ audit[Len(audit) - 1].target_model = "LegalDocument"

\* C5: at most one LegalDocument per document type is active.
C5_OneActivePerType ==
    \A t \in DocType :
        Cardinality({k \in DOMAIN docs : k[1] = t /\ docs[k]}) <= 1

\* C5 witness: a type has two versions, one of them active, and the
\* attempt to activate the other one was just rejected by the store.
C5_Witness ==
    /\ resp.op \in {"doc_save", "doc_create", "bootstrap"}
    /\ resp.detail = "IntegrityError"
    /\ \E k, j \in DOMAIN docs : k[1] = j[1] /\ k # j /\ docs[k] /\ ~docs[j]

---------------------------------------------------------------------------
(* The patient registry: staff CRUD and listing of patient records by    *)
(* every kind of principal.                                              *)

\* request.user of the patient endpoints: an account of any role, clinic
\* and superuser flag, or no account.
PatientPrincipals ==
    {UserRow(1, role, clinic, su, NoUser) :
        role \in Role, clinic \in Clinic \cup {None}, su \in BOOLEAN}
    \cup {AnonymousUser}

\* The staff issuing writes: a secretary of each clinic, one without a
\* clinic, a platform admin, and two callers the permissions refuse.
PatientWriters ==
    {UserRow(1, SECRETARY, "A", FALSE, NoUser),
     UserRow(1, SECRETARY, "B", FALSE, NoUser),
     UserRow(1, SECRETARY, None, FALSE, NoUser),
     UserRow(1, SAAS_ADMIN, None, FALSE, NoUser),
     UserRow(1, PATIENT, "A", FALSE, NoUser),
     AnonymousUser}

InitPatient ==
    /\ users = <<>>
    /\ EmptyStore

NextPatient ==
    \/ \E user \in PatientWriters, cpf \in Cpfs :
          PatientCreate(user, TenantMiddleware(user), cpf)
    \/ \E user \in PatientWriters, id \in PatientIds, cpf \in Cpfs :
          PatientUpdate(user, TenantMiddleware(user), id, cpf)
    \/ \E user \in PatientWriters, id \in PatientIds :
          PatientDelete(user, TenantMiddleware(user), id)
    \/ \E user \in PatientPrincipals :
          PatientList(user, TenantMiddleware(user))

SpecPatient == InitPatient /\ [][NextPatient]_vars

---------------------------------------------------------------------------
(* Properties of the patient registry *)

\* The digest the codec assigns to a raw national ID: that of its digits,
\* NULL when it has none.
ExpectedHash(cpf) ==
    IF normalize_cpf(cpf) = <<>> THEN NoHash ELSE sha256(normalize_cpf(cpf))

SameTenantHolder(p, clinic, cpf, except) ==
    \E i \in DOMAIN p \ except :
        p[i].clinic = clinic /\ p[i].cpf_hash = make_cpf_hash(cpf)

\* C6: no two PatientRecords of one tenant have national IDs with the
\* same non-empty digits; records whose IDs have the same digits carry the
\* same hash however they are punctuated; a write is rejected as a
\* conflict only when a record of the same tenant already holds that hash,
\* whatever other tenants hold, and a rejected write changes no record.
C6_UniquePerTenant ==
    [][/\ \A i, j \in DOMAIN patients' :
             (/\ normalize_cpf(patients'[i].cpf) = normalize_cpf(patients'[j].cpf)
              /\ normalize_cpf(patients'[i].cpf) # <<>>)
             => /\ patients'[i].cpf_hash = patients'[j].cpf_hash
                /\ patients'[i].clinic = patients'[j].clinic => i = j
       /\ (resp'.op = "patient_create" /\ resp'.detail = "IntegrityError")
             => /\ patients' = patients
                /\ SameTenantHolder(patients, resp'.data.clinic,
                                    resp'.data.cpf, {})
       /\ (resp'.op = "patient_update" /\ resp'.detail = "IntegrityError")
             => /\ patients' = patients
                /\ SameTenantHolder(patients, patients[resp'.data.id].clinic,
                                    resp'.data.cpf, {resp'.data.id})]_vars

DigitsHolder(p, clinic, cpf) ==
    \E i \in DOMAIN p :
        /\ p[i].clinic = clinic
        /\ normalize_cpf(p[i].cpf) = normalize_cpf(cpf)

\* C6 as stated: no two PatientRecords of one tenant have national IDs
\* with the same non-empty digits, and creating a record is refused as a
\* conflict only when a record of the same tenant has a national ID with
\* the same digits: whatever other tenants hold, the create succeeds.
C6_ConflictOnlyOnSameDigits ==
    [][/\ \A i, j \in DOMAIN patients' :
             (/\ normalize_cpf(patients'[i].cpf) = normalize_cpf(patients'[j].cpf)
              /\ normalize_cpf(patients'[i].cpf) # <<>>
              /\ patients'[i].clinic = patients'[j].clinic) => i = j
       /\ (resp'.op = "patient_create" /\ resp'.detail = "IntegrityError")
             => /\ patients' = patients
                /\ DigitsHolder(patients, resp'.data.clinic, resp'.data.cpf)]_vars

\* C6 witness: two tenants each hold a record with the same digits,
\* punctuated differently, and a further record with those digits has just
\* been refused in one of them.
C6_Witness ==
    /\ resp.op = "patient_create" /\ resp.detail = "IntegrityError"
    /\ \E i, j \in DOMAIN patients :
          /\ patients[i].clinic # patients[j].clinic
          /\ patients[i].cpf # patients[j].cpf
          /\ normalize_cpf(patients[i].cpf) = normalize_cpf(patients[j].cpf)
          /\ normalize_cpf(patients[i].cpf) = normalize_cpf(resp.data.cpf)
          /\ resp.data.cpf # patients[i].cpf
          /\ resp.data.clinic = patients[i].clinic

\* C8 as stated: the stored hash of every record is the hash of the
\* digits of the raw national ID last written, NULL when it has no digit.
C8_HashRecomputed ==
    \A i \in DOMAIN patients :
        patients[i].cpf_hash = ExpectedHash(patients[i].cpf)

\* The rows a principal without the admin bypass must be listed.
TenantPatients(user) ==
    {i \in DOMAIN patients :
        user.clinic # None /\ patients[i].clinic = user.clinic}

\* C10: the patient list returned to a principal that is neither
\* PlatformAdmin nor superuser is exactly the set of records of its
\* tenant (empty without a tenant); an admin is returned every record.
C10_PatientListScoped ==
    /\ \A u \in PatientPrincipals :
          PatientViewSet_get_queryset(u, TenantMiddleware(u), patients)
             = IF IsAdmin(u) THEN DOMAIN patients ELSE TenantPatients(u)
    /\ (resp.op = "patient_list" /\ resp.status = 200)
          => resp.data = IF IsAdmin(resp.user) THEN DOMAIN patients
                         ELSE TenantPatients(resp.user)

\* C10 witness: both tenants hold records and a clinic's staff member was
\* just returned those of its own clinic only.
C10_Witness ==
    /\ resp.op = "patient_list" /\ resp.status = 200
    /\ ~IsAdmin(resp.user)
    /\ resp.data # {} /\ resp.data # DOMAIN patients
    /\ \A i \in resp.data : patients[i].clinic = resp.user.clinic

---------------------------------------------------------------------------
(* Concurrent patient registrations *)

\* The documents active in PatientRegistrationAndAuthTests.setUp
RegistrationDocs == (<<"TERMS", 1>> :> TRUE) @@ (<<"PRIVACY", 1>> :> TRUE)

RegEmails == {"p1@example.com", "p2@example.com"}
RegCpfs == {<<"1">>, <<"1", ".">>, <<"1", "1">>}
RegSchemas == Clinic \cup {"unknown"}
RegAgreements == {<<TRUE, TRUE, TRUE>>, <<TRUE, TRUE, FALSE>>}

InitReg ==
    /\ users = <<>>
    /\ docs = RegistrationDocs
    /\ consents = EmptyBag
    /\ patients = <<>>
    /\ nextPatientId = 1
    /\ appointments = <<>>
    /\ nextAppointmentId = 1
    /\ audit = <<>>
    /\ tokens = {}
    /\ outbox = {}
    /\ reg = [p \in RegProcs |-> RegIdle]
    /\ resp = InitResp

NextReg ==
    \/ \E p \in RegProcs, schema \in RegSchemas, email \in RegEmails,
          cpf \in RegCpfs, password_ok \in BOOLEAN, agree \in RegAgreements :
          RegValidate(p, schema, email, cpf, password_ok, agree)
    \/ \E p \in RegProcs : RegCreateUser(p)
    \/ \E p \in RegProcs : RegCreatePatient(p)
    \/ \E p \in RegProcs : RegFinish(p)

SpecReg == InitReg /\ [][NextReg]_vars

RegEnded(p) == reg[p].pc \in {"done", "failed"}

SameIdentifier(p, q) ==
    /\ reg[p].clinic = reg[q].clinic
    /\ normalize_cpf(reg[p].cpf) = normalize_cpf(reg[q].cpf)

---------------------------------------------------------------------------
(* Access to tenant-scoped objects: the appointment endpoints and the    *)
(* object-level permission checks, for the staff of two clinics.         *)

\* The accounts of AppointmentIsolationTests.setUp (a doctor per clinic, a
\* secretary bound to the doctor of her clinic) together with a secretary
\* without a binding, a clinic owner, a platform admin, a patient account,
\* a superuser and an owner without a clinic.
AccessUsers ==
    <<UserRow(1, DOCTOR, "A", FALSE, NoUser),
      UserRow(2, DOCTOR, "B", FALSE, NoUser),
      UserRow(3, SECRETARY, "A", FALSE, 1),
      UserRow(4, SECRETARY, "A", FALSE, NoUser),
      UserRow(5, CLINIC_OWNER, "A", FALSE, NoUser),
      UserRow(6, SAAS_ADMIN, None, FALSE, NoUser),
      UserRow(7, PATIENT, "A", FALSE, NoUser),
      UserRow(8, SECRETARY, "B", TRUE, NoUser),
      UserRow(9, CLINIC_OWNER, None, FALSE, NoUser)>>

\* patient_a and patient_b of AppointmentIsolationTests.setUp
AccessPatients ==
    PatientProfile_create(
        PatientProfile_create(<<>>, 1, "A", <<"1">>, NoUser).patients,
        2, "B", <<"1">>, NoUser).patients

\* The staff who write appointments in this specification.
AppointmentWriters == {3, 5, 2, 6, 7}

InitAccess ==
    /\ users = AccessUsers
    /\ docs = <<>>
    /\ consents = EmptyBag
    /\ patients = AccessPatients
    /\ nextPatientId = 3
    /\ appointments = <<>>
    /\ nextAppointmentId = 1
    /\ audit = <<>>
    /\ tokens = {}
    /\ outbox = {}
    /\ reg = <<>>
    /\ resp = InitResp

AppointmentIds == 1..MaxAudit

\* Inputs of the requests: a doctor of each clinic and an account that is
\* no doctor; the principals and objects handed to the object-level check.
DoctorInputs == {1, 2, 5}
RetrievePrincipals == {2, 3, 4, 5, 8}
CheckPrincipals == {2, 5, 6, 9}
CheckedIds == {1, 2, 6}

NextAccess ==
    \/ \E u \in AppointmentWriters, doctor \in DoctorInputs,
          patient \in DOMAIN patients :
          AppointmentCreate(users[u], TenantMiddleware(users[u]), doctor,
                            patient)
    \/ \E user \in StoredPrincipals :
          AppointmentList(user, TenantMiddleware(user))
    \/ \E u \in RetrievePrincipals, id \in AppointmentIds :
          AppointmentRetrieve(users[u], TenantMiddleware(users[u]), id)
    \/ \E u \in AppointmentWriters, id \in AppointmentIds :
          AppointmentDelete(users[u], TenantMiddleware(users[u]), id)
    \/ \E u \in CheckPrincipals, kind \in ObjectKinds, id \in CheckedIds :
          CheckObjectPermissions(users[u], kind, id)

SpecAccess == InitAccess /\ [][NextAccess]_vars

---------------------------------------------------------------------------
(* Properties of the access rules *)

\* C1: for a principal that is neither PlatformAdmin nor superuser,
\* whatever its role, the object-level check of both permission classes
\* on a patient record, an appointment or a staff account is true exactly
\* when the object's tenant equals the principal's tenant; every object
\* the appointment endpoints hand to such a principal is of its tenant.
C1_ObjectPermissionIffSameTenant ==
    /\ \A u \in StoredUsers, kind \in ObjectKinds :
          \A id \in DOMAIN StoredObjects(kind) :
             ~IsAdmin(u) =>
                LET obj == StoredObjects(kind)[id]
                IN  /\ IsClinicStaffOrReadOnly_has_object_permission(u, obj)
                          <=> (obj.clinic = u.clinic)
                    /\ IsClinicOwnerOrSaaSAdmin_has_object_permission(u, obj)
                          <=> (obj.clinic = u.clinic)
    /\ (resp.op = "check_object_permissions" /\ ~IsAdmin(resp.user))
          => LET obj == StoredObjects(resp.data.kind)[resp.data.id]
             IN  /\ resp.data.staff <=> (obj.clinic = resp.user.clinic)
                 /\ resp.data.owner <=> (obj.clinic = resp.user.clinic)
    /\ (resp.op = "appointment_retrieve" /\ resp.status = 200
           /\ ~IsAdmin(resp.user))
          => appointments[resp.data.id].clinic = resp.user.clinic

\* C1 witness: a clinic owner, who passes the role check of both classes,
\* was just refused an appointment of the other tenant by both.
C1_Witness ==
    /\ resp.op = "check_object_permissions"
    /\ resp.user.role = CLINIC_OWNER /\ resp.user.clinic = "A"
    /\ resp.data.kind = "Appointment"
    /\ resp.data.id \in DOMAIN appointments
    /\ appointments[resp.data.id].clinic = "B"
    /\ ~resp.data.staff /\ ~resp.data.owner

\* The appointments of the principal's own tenant.
TenantAppointments(user) ==
    {i \in DOMAIN appointments :
        user.clinic # None /\ appointments[i].clinic = user.clinic}

\* C9: the appointment list of an admin or superuser is every
\* appointment; of a clinic owner, exactly those of the clinic; of a
\* doctor, those of the clinic whose doctor is that principal; of a
\* secretary, those of the clinic whose doctor is the bound doctor, and
\* nothing without a binding; no principal other than an admin is listed
\* an appointment of another tenant.
C9_Expected(u) ==
    IF IsAdmin(u) THEN DOMAIN appointments
    ELSE IF u.role = CLINIC_OWNER THEN TenantAppointments(u)
    ELSE IF u.role = DOCTOR
    THEN {i \in TenantAppointments(u) : appointments[i].doctor = u.id}
    ELSE IF u.role = SECRETARY
    THEN {i \in TenantAppointments(u) :
             /\ u.doctor_for_secretary # NoUser
             /\ appointments[i].doctor = u.doctor_for_secretary}
    ELSE TenantAppointments(u)

C9_AppointmentListScoped ==
    /\ \A u \in StoredUsers :
          LET qs == AppointmentViewSet_get_queryset(u, TenantMiddleware(u),
                                                    appointments)
          IN  /\ qs = C9_Expected(u)
              /\ ~IsAdmin(u) => qs \subseteq TenantAppointments(u)
    /\ (resp.op = "appointment_list" /\ resp.status = 200)
          => /\ resp.data = C9_Expected(resp.user)
             /\ resp.user.role # PATIENT \/ IsAdmin(resp.user)

\* C9 witness: the clinic holds appointments of a doctor, and a secretary
\* of that clinic without a binding was just listed nothing.
C9_Witness ==
    /\ resp.op = "appointment_list" /\ resp.status = 200
    /\ resp.user.role = SECRETARY /\ ~IsAdmin(resp.user)
    /\ resp.user.doctor_for_secretary = NoUser
    /\ TenantAppointments(resp.user) # {}
    /\ resp.data = {}
    /\ \E i \in DOMAIN appointments : appointments[i].clinic # resp.user.clinic

---------------------------------------------------------------------------
(* Staff management by the accounts of two clinics *)

InitStaff ==
    /\ users = StaffAccounts
    /\ EmptyStore

StaffEmails == {"new1@example.com", "sec_a@example.com"}
StaffRoleInputs == {None, SAAS_ADMIN, PATIENT, CLINIC_OWNER, DOCTOR}
ClinicIdInputs == ClinicRows \cup {None}
StaffUpdateTargets == {3, 4}
StaffUpdateRoles == {DOCTOR, SAAS_ADMIN, None}

\* request.user of the staff endpoints: the stored rows of these accounts,
\* or no account.
StaffActors == {1, 2, 3, 4, 6, 7}
StaffPrincipals == {users[i] : i \in StaffActors} \cup {AnonymousUser}

NextStaff ==
    \/ \E user \in StaffPrincipals, role \in StaffRoleInputs,
          clinic_id \in ClinicIdInputs, email \in StaffEmails,
          crm \in BOOLEAN :
          StaffCreate(user, role, clinic_id, email, crm)
    \/ \E user \in StaffPrincipals, id \in StaffUpdateTargets,
          role \in StaffUpdateRoles, clinic_id \in ClinicIdInputs :
          StaffUpdate(user, id, role, clinic_id, FALSE)
    \/ \E user \in StaffPrincipals, clinic_param \in Clinic \cup {None} :
          StaffList(user, clinic_param)

SpecStaff == InitStaff /\ [][NextStaff]_vars

---------------------------------------------------------------------------
(* Properties of staff management *)

StaffRoles == {CLINIC_OWNER, SECRETARY, DOCTOR}

CreatedAccounts == DOMAIN users' \ DOMAIN users

ChangedAccounts == {i \in DOMAIN users : users'[i] # users[i]}

\* C11: a staff request changes the accounts only when its principal is a
\* PlatformAdmin/superuser or a TenantOwner.  For an admin the request
\* names a clinic that exists and is active, and a created account is of
\* that clinic.  For an owner a created account is of the owner's own
\* clinic whatever clinic id the request carries, and an updated account
\* is of the owner's clinic.  No update moves an account to another
\* clinic.  A request by a Secretary, Doctor or Patient is answered 403
\* and changes nothing.
C11_StaffTenantScope ==
    [][LET actor == resp'.user
       IN  /\ users' # users =>
                /\ resp'.op \in {"staff_create", "staff_update"}
                /\ IsAdmin(actor) \/ actor.role = CLINIC_OWNER
                /\ DOMAIN users \subseteq DOMAIN users'
                /\ \A i \in ChangedAccounts : users'[i].clinic = users[i].clinic
                /\ IsAdmin(actor) =>
                      /\ resp'.data.clinic_id \in Clinic
                      /\ \A n \in CreatedAccounts :
                            users'[n].clinic = resp'.data.clinic_id
                /\ ~IsAdmin(actor) =>
                      /\ actor.clinic # None
                      /\ \A n \in CreatedAccounts :
                            users'[n].clinic = actor.clinic
                      /\ \A i \in ChangedAccounts :
                            users[i].clinic = actor.clinic
           /\ (/\ resp'.op \in {"staff_create", "staff_update"}
               /\ actor.is_authenticated /\ ~IsAdmin(actor)
               /\ actor.role \in {SECRETARY, DOCTOR, PATIENT})
                 => resp'.status = 403 /\ users' = users]_vars

\* C11 witness: a clinic owner supplied the id of another clinic and the
\* account was created in the owner's own clinic.
C11_Witness ==
    /\ resp.op = "staff_create" /\ resp.status = 201
    /\ resp.user.role = CLINIC_OWNER /\ ~IsAdmin(resp.user)
    /\ resp.data.clinic_id = "B"
    /\ resp.data.id \in DOMAIN users
    /\ users[resp.data.id].clinic = "A"
    /\ resp.user.clinic = "A"

\* C12 as stated: every account created through the staff creation
\* endpoint has role TenantOwner, Secretary or Doctor.
C12_CreatedRoleIsStaff ==
    [][resp'.op = "staff_create" =>
          \A n \in CreatedAccounts : users'[n].role \in StaffRoles]_vars

---------------------------------------------------------------------------
(* The protected endpoints under every guard: accounts of each role with *)
(* and without consent to the active document.                           *)

GuardUsers ==
    <<UserRow(1, SECRETARY, "A", FALSE, 2),
      UserRow(2, DOCTOR, "A", FALSE, NoUser),
      UserRow(3, PATIENT, "A", FALSE, NoUser),
      UserRow(4, SAAS_ADMIN, None, FALSE, NoUser),
      UserRow(5, PATIENT, None, TRUE, NoUser),
      UserRow(6, CLINIC_OWNER, "B", FALSE, NoUser)>>

\* One active document, accepted by the secretary of A and the owner of B.
GuardDocs == (<<"TERMS", 1>> :> TRUE)
GuardConsents ==
    get_or_create_all(EmptyBag, {1, 6} \X ActiveDocs(GuardDocs)).consents

\* The patient of clinic A is the profile of account 3.
GuardPatients ==
    PatientProfile_create(
        PatientProfile_create(<<>>, 1, "A", <<"1">>, 3).patients,
        2, "B", <<"1">>, NoUser).patients

InitGuards ==
    /\ users = GuardUsers
    /\ docs = GuardDocs
    /\ consents = GuardConsents
    /\ patients = GuardPatients
    /\ nextPatientId = 3
    /\ appointments = <<>>
    /\ nextAppointmentId = 1
    /\ audit = <<>>
    /\ tokens = {}
    /\ outbox = {}
    /\ reg = <<>>
    /\ resp = InitResp

\* Inputs of the requests.  Writes and accepts are issued by the accounts
\* of GuardWriters or without credentials; reads by every account.
GuardCpfs == {<<"1", "1">>}
GuardRecordIds == {1, 2}
GuardDoctorInputs == {2, 6}
GuardWriters == {users[i] : i \in {1, 2, 3, 6}} \cup {AnonymousUser}
GuardAccepters == {users[3], AnonymousUser}
GuardPaths == {"/api/patients/", "/admin/"}

NextGuards ==
    \/ \E user \in GuardAccepters : ConsentAccept(user)
    \/ \E user \in GuardWriters, cpf \in GuardCpfs :
          PatientCreate(user, TenantMiddleware(user), cpf)
    \/ \E user \in GuardWriters, id \in GuardRecordIds, cpf \in GuardCpfs :
          PatientUpdate(user, TenantMiddleware(user), id, cpf)
    \/ \E user \in GuardWriters, id \in GuardRecordIds :
          PatientDelete(user, TenantMiddleware(user), id)
    \/ \E user \in StoredPrincipals, id \in GuardRecordIds :
          PatientRetrieve(user, TenantMiddleware(user), id)
    \/ \E user \in StoredPrincipals :
          PatientList(user, TenantMiddleware(user))
    \/ \E user \in GuardWriters, patient \in GuardRecordIds :
          AppointmentCreate(user, TenantMiddleware(user), 2, patient)
    \/ \E user \in GuardWriters :
          AppointmentUpdate(user, TenantMiddleware(user), 1, CONFIRMED)
    \/ \E user \in GuardWriters :
          AppointmentDelete(user, TenantMiddleware(user), 1)
    \/ \E user \in StoredPrincipals :
          AppointmentRetrieve(user, TenantMiddleware(user), 1)
    \/ \E user \in StoredPrincipals :
          AppointmentList(user, TenantMiddleware(user))
    \/ \E user \in GuardWriters, doctor \in GuardDoctorInputs,
          times_ok \in BOOLEAN :
          AppointmentRequest(user, doctor, times_ok)
    \/ \E user \in StoredPrincipals, path \in GuardPaths :
          ProcessView(user, path)

SpecGuards == InitGuards /\ [][NextGuards]_vars

---------------------------------------------------------------------------
(* Properties of the guards *)

StaffViewOps ==
    {"patient_list", "patient_retrieve", "patient_create", "patient_update",
     "patient_delete", "appointment_list", "appointment_retrieve",
     "appointment_create", "appointment_update", "appointment_delete"}

ByIdOps ==
    {"patient_retrieve", "patient_update", "patient_delete",
     "appointment_retrieve", "appointment_update", "appointment_delete"}

\* C13 as stated: a principal of a protected request who fails both the
\* role check and the consent check is denied for the role mismatch.
C13_RoleBeforeConsent ==
    (/\ resp.op \in StaffViewOps
     /\ resp.user.is_authenticated
     /\ ~IsClinicStaffOrReadOnly_has_permission(resp.user)
     /\ ~has_active_consent(resp.user, docs, consents))
    => resp.detail = "permission_denied"

\* What a request can persist or send.
Persisted ==
    <<users, docs, consents, patients, nextPatientId, appointments,
      nextAppointmentId, audit, tokens, outbox>>

ConsentOK(u) == IsAdmin(u) \/ has_active_consent(u, docs, consents)

\* The principal fails a guard that precedes the business operation.
FailsGuard(op, u) ==
    \/ ~u.is_authenticated
    \/ /\ op \in StaffViewOps \cup {"appointment_request"}
       /\ ~ConsentOK(u)
    \/ /\ op \in StaffViewOps
       /\ ~IsAdmin(u)
       /\ u.role \notin {CLINIC_OWNER, SECRETARY, DOCTOR}
    \/ /\ op = "appointment_request"
       /\ u.role # PATIENT

\* C14: a request denied by a guard (no credentials, missing consent, role
\* mismatch, or an object outside the principal's tenant) is answered
\* 401, 403 or 404 and leaves every table, the audit log and the outbox
\* of notifications as they were.
C14_DeniedChangesNothing ==
    [][/\ resp'.status \in {401, 403, 404} => UNCHANGED Persisted
       /\ (resp'.op \in StaffViewOps \cup {"appointment_request",
                                           "consent_accept"}
           /\ FailsGuard(resp'.op, resp'.user))
             => /\ resp'.status \in {401, 403}
                /\ UNCHANGED Persisted]_vars

\* C14 witness: after an audited write, a staff member without consent
\* asked to create a patient and was refused.
C14_Witness ==
    /\ resp.op = "patient_create" /\ resp.status = 403
    /\ resp.detail = "consent_required"
    /\ resp.user.role = DOCTOR
    /\ audit # <<>>

\* C19: for a principal that is neither PlatformAdmin nor superuser, a
\* patient record or appointment looked up by id is not found both when
\* the id names nothing and when it names a record of another tenant, and
\* the answer to the read, update or delete is the same 404 in both
\* cases; the object-level refusal, which would tell them apart, never
\* occurs.
C19_NoExistenceLeak ==
    /\ \A u \in StoredUsers, id \in 1..3 :
          ~IsAdmin(u) =>
             /\ (id \notin DOMAIN patients \/ patients[id].clinic # u.clinic)
                   => PatientViewSet_get_object(u, TenantMiddleware(u), id)
                         = "not_found"
             /\ (id \notin DOMAIN appointments
                    \/ appointments[id].clinic # u.clinic)
                   => AppointmentViewSet_get_object(u, TenantMiddleware(u), id)
                         = "not_found"
    /\ (resp.op \in ByIdOps /\ ~IsAdmin(resp.user))
          => /\ resp.status = 404 =>
                   resp.detail = "not_found" /\ resp.data = None
             /\ StaffViewPermission(resp.user, docs, consents) = "ok"
                   => resp.status # 403

\* C19 witness: the secretary of clinic A asked for a patient by id while
\* the only ids in use are a patient of A and a patient of B, and was
\* answered 404: the id was the one of the other clinic.
C19_Witness ==
    /\ resp.op = "patient_retrieve" /\ resp.status = 404
    /\ resp.user.role = SECRETARY /\ resp.user.clinic = "A"
    /\ DOMAIN patients = {1, 2}
    /\ patients[1].clinic = "A" /\ patients[2].clinic = "B"

\* C20 as stated: the consent gate lets a PlatformAdmin or superuser
\* through at the per-view permission check and at the middleware.
C20_AdminBypassesGate ==
    IsAdmin(resp.user) =>
       /\ resp.op \in StaffViewOps => resp.detail # "consent_required"
       /\ resp.op = "process_view" => resp.status = 200

---------------------------------------------------------------------------
(* Login, e-mail verification and removal of a staff account *)

\* ModelBackend.authenticate as TokenObtainPairSerializer uses it: the
\* account of that username when the password matches and the account is
\* active, else no account.
Authenticate(username, password_ok) ==
    LET found == {i \in DOMAIN users : /\ HasField(users[i], "username")
                                       /\ users[i].username = username}
    IN  IF found = {} \/ ~password_ok THEN NoUser
        ELSE LET i == CHOOSE x \in found : TRUE
             IN  IF users[i].is_active THEN i ELSE NoUser

\* rest_framework_simplejwt TokenObtainPairView.post: a token pair for
\* valid credentials, 401 otherwise; nothing is written.
TokenObtainPairView_post(username, password_ok) ==
    LET i == Authenticate(username, password_ok)
    IN  /\ resp' = IF i = NoUser
                   THEN Response("login", AnonymousUser, 401,
                                 "not_authenticated", username)
                   ELSE Response("login", users[i], 200, "ok", username)
        /\ UNCHANGED audit
        /\ Unchanged_identity /\ Unchanged_consent /\ Unchanged_records

\* LoggingTokenObtainPairView.post: the token pair of the parent view, then
\* a LOGIN entry when the answer is 200.
LoggingTokenObtainPairView_post(username, password_ok, audit_ok) ==
    LET i == Authenticate(username, password_ok)
    IN  /\ Unchanged_identity /\ Unchanged_consent /\ Unchanged_records
        /\ IF i = NoUser
           THEN /\ resp' = Response("login", AnonymousUser, 401,
                                    "not_authenticated", username)
                /\ UNCHANGED audit
           ELSE /\ Len(audit) < MaxAudit
                /\ audit' = IF audit_ok
                            THEN create_audit_log(audit, users[i],
                                    users[i].clinic, "CustomUser", i, "LOGIN")
                            ELSE audit
                /\ resp' = IF audit_ok
                           THEN Response("login", users[i], 200, "ok", username)
                           ELSE Response("login", users[i], 500,
                                         "DatabaseError", None)

\* urlpatterns: path("auth/login/", TokenObtainPairView.as_view(),
\* name="token_obtain_pair")
Login(username, password_ok) == TokenObtainPairView_post(username, password_ok)

\* VerifyEmailView.post; well_formed is whether the code is six digits,
\* expired whether expires_at has passed.
VerifyEmail_db(code, well_formed, expired, audit_ok) ==
    LET match == {t \in tokens : t.token = code /\ ~t.is_used}
        ev == CHOOSE t \in match : TRUE
        uid == ev.user
    IN  /\ UNCHANGED <<outbox, reg>>
        /\ Unchanged_consent /\ Unchanged_records
        /\ IF ~well_formed \/ match = {} \/ expired
           THEN /\ resp' = Response("verify_email", AnonymousUser, 400,
                                    "ValidationError", code)
                /\ UNCHANGED <<users, tokens, audit>>
           ELSE /\ Len(audit) < MaxAudit
                /\ tokens' = (tokens \ {ev}) \cup {[ev EXCEPT !.is_used = TRUE]}
                /\ users' = [users EXCEPT ![uid].is_active = TRUE,
                                          ![uid].is_verified = TRUE]
                /\ audit' = IF audit_ok
                            THEN create_audit_log(audit, users[uid],
                                    users[uid].clinic, "CustomUser", uid,
                                    "UPDATE")
                            ELSE audit
                /\ resp' = IF audit_ok
                           THEN Response("verify_email", AnonymousUser, 200,
                                         "ok", code)
                           ELSE Response("verify_email", AnonymousUser, 500,
                                         "DatabaseError", None)

\* VerifyEmail when the insert into the audit table succeeds
VerifyEmail(code, well_formed, expired) ==
    VerifyEmail_db(code, well_formed, expired, TRUE)

\* AuditLog.actor: on_delete=SET_NULL
AuditLog_actor_set_null(log, id) ==
    [k \in DOMAIN log |->
        IF log[k].actor = id THEN [log[k] EXCEPT !.actor = NoUser] ELSE log[k]]

\* The rows of the other tables that go with an account:
\* UserConsent.user, EmailVerificationToken.user, PatientProfile.user and
\* Appointment.doctor are on_delete=CASCADE (a patient profile takes its
\* appointments along), CustomUser.doctor_for_secretary is SET_NULL.
CustomUser_delete_users(u, id) ==
    [i \in DOMAIN u \ {id} |->
        IF u[i].doctor_for_secretary = id
        THEN [u[i] EXCEPT !.doctor_for_secretary = NoUser] ELSE u[i]]

CustomUser_delete_patients(p, id) ==
    [i \in {x \in DOMAIN p : p[x].user # id} |-> p[i]]

CustomUser_delete_appointments(a, p, id) ==
    [i \in {x \in DOMAIN a : /\ a[x].doctor # id
                             /\ a[x].patient \in DOMAIN p
                             /\ p[a[x].patient].user # id} |-> a[i]]

CustomUser_delete_consents(c, id) ==
    [r \in {x \in DOMAIN c : x.user # id} |-> c[r]]

\* StaffUserViewSet.destroy (ModelViewSet): get_object, then
\* instance.delete() with the cascades of the model.
StaffDelete(user, id) ==
    LET why == StaffManagementPermission(user, docs, consents)
        obj == StaffUserViewSet_get_object(user, id)
    IN  /\ UNCHANGED <<docs, outbox, reg, nextPatientId, nextAppointmentId>>
        /\ IF why # "ok"
           THEN /\ resp' = Denied("staff_delete", user, why)
                /\ UNCHANGED <<users, consents, tokens, patients, appointments,
                               audit>>
           ELSE IF obj # "ok"
           THEN /\ resp' = Response("staff_delete", user,
                                    IF obj = "not_found" THEN 404 ELSE 403,
                                    obj, None)
                /\ UNCHANGED <<users, consents, tokens, patients, appointments,
                               audit>>
           ELSE /\ users' = CustomUser_delete_users(users, id)
                /\ consents' = CustomUser_delete_consents(consents, id)
                /\ tokens' = {t \in tokens : t.user # id}
                /\ patients' = CustomUser_delete_patients(patients, id)
                /\ appointments' =
                      CustomUser_delete_appointments(appointments, patients, id)
                /\ audit' = AuditLog_actor_set_null(audit, id)
                /\ resp' = Response("staff_delete", user, 204, "ok",
                                    [id |-> id])

---------------------------------------------------------------------------
(* The audited operations over one clinic: its owner, a doctor and a      *)
(* registered patient whose e-mail is not verified yet.                   *)

AuditUsers ==
    <<StaffRow(1, CLINIC_OWNER, "A", FALSE, "owner_a@example.com"),
      StaffRow(2, DOCTOR, "A", FALSE, "doc_a@example.com"),
      RegisteredUser(3, "p1@example.com", "A")>>

AuditDocs == (<<"TERMS", 1>> :> TRUE)

AuditConsents ==
    get_or_create_all(EmptyBag, {1, 2, 3} \X ActiveDocs(AuditDocs)).consents

AuditPatients == PatientProfile_create(<<>>, 1, "A", <<"1">>, 3).patients

InitAudit ==
    /\ users = AuditUsers
    /\ docs = AuditDocs
    /\ consents = AuditConsents
    /\ patients = AuditPatients
    /\ nextPatientId = 2
    /\ appointments = <<>>
    /\ nextAppointmentId = 1
    /\ audit = <<>>
    /\ tokens = {TokenRow(3, 1)}
    /\ outbox = {}
    /\ reg = <<>>
    /\ resp = InitResp

\* request.user of an authenticated request: an active stored account
\* (a token is only issued to, and accepted for, an active account).
ActivePrincipals ==
    {users[i] : i \in {x \in DOMAIN users : users[x].is_active}}

AuditWriters == {u \in ActivePrincipals : u.role = DOCTOR}
AuditOwners == {u \in ActivePrincipals : u.role = CLINIC_OWNER}
AuditPatientUsers == {u \in ActivePrincipals : u.role = PATIENT}
AuditUsernames == {"doc_a@example.com", "p1@example.com"}
AuditCpfs == {<<"1", "1">>}

NextAudit ==
    \/ \E username \in AuditUsernames, password_ok \in BOOLEAN :
          Login(username, password_ok)
    \/ \E code \in TokenCodes, well_formed \in BOOLEAN, expired \in BOOLEAN,
          audit_ok \in BOOLEAN :
          VerifyEmail_db(code, well_formed, expired, audit_ok)
    \/ \E user \in AuditPatientUsers, audit_ok \in BOOLEAN :
          ConsentAccept_db(user, audit_ok)
    \/ \E user \in AuditWriters, cpf \in AuditCpfs, audit_ok \in BOOLEAN :
          PatientCreate_db(user, TenantMiddleware(user), cpf, audit_ok)
    \/ \E user \in AuditWriters, cpf \in AuditCpfs, audit_ok \in BOOLEAN :
          PatientUpdate_db(user, TenantMiddleware(user), 1, cpf, audit_ok)
    \/ \E user \in AuditWriters, audit_ok \in BOOLEAN :
          PatientDelete_db(user, TenantMiddleware(user), 1, audit_ok)
    \/ \E user \in AuditWriters, audit_ok \in BOOLEAN :
          AppointmentCreate_db(user, TenantMiddleware(user), 2, 1, audit_ok)
    \/ \E user \in AuditWriters, audit_ok \in BOOLEAN :
          AppointmentUpdate_db(user, TenantMiddleware(user), 1, CONFIRMED,
                               audit_ok)
    \/ \E user \in AuditWriters, audit_ok \in BOOLEAN :
          AppointmentDelete_db(user, TenantMiddleware(user), 1, audit_ok)
    \/ \E user \in AuditPatientUsers, audit_ok \in BOOLEAN :
          AppointmentRequest_db(user, 2, TRUE, audit_ok)
    \/ \E user \in AuditOwners : StaffDelete(user, 2)

SpecAudit == InitAudit /\ [][NextAudit]_vars

---------------------------------------------------------------------------
(* Properties of the audit log *)

AuditedOps ==
    {"patient_create", "patient_update", "patient_delete",
     "appointment_create", "appointment_update", "appointment_delete",
     "appointment_request", "consent_accept", "verify_email"}

PrimaryTables == <<users, consents, patients, appointments, tokens>>

\* C15 as stated: in a step of an audited operation the primary tables
\* change only together with the append of one audit entry, and an entry
\* is appended only by a request that completed.
C15_WriteAndAuditTogether ==
    [][resp'.op \in AuditedOps =>
          /\ PrimaryTables' # PrimaryTables => Len(audit') = Len(audit) + 1
          /\ Len(audit') > Len(audit) => resp'.status \in {200, 201, 204}]_vars

\* C16 as stated: a login answered 200 appends one LOGIN entry whose
\* actor and target are the authenticated account and whose clinic is the
\* account's clinic; a login answered otherwise appends none.
C16_LoginAudited ==
    [][resp'.op = "login" =>
          IF resp'.status = 200
          THEN audit' = Append(audit,
                           AuditEntry(resp'.user, resp'.user.clinic,
                                      "CustomUser", resp'.user.id, "LOGIN"))
          ELSE audit' = audit]_vars

RecordTables == <<patients, appointments>>

\* The ids of the rows that differ between two versions of a table.
TouchedIds(old, new) ==
    {i \in DOMAIN old \cup DOMAIN new :
        i \notin DOMAIN old \/ i \notin DOMAIN new \/ old[i] # new[i]}

\* C17 as stated: a step that creates, changes or deletes a patient record
\* or an appointment appends exactly one audit entry, and the entry names
\* a record the step touched, with that record's kind.
C17_EveryRecordWriteAudited ==
    [][RecordTables' # RecordTables =>
          /\ Len(audit') = Len(audit) + 1
          /\ SubSeq(audit', 1, Len(audit)) = audit
          /\ LET e == audit'[Len(audit')]
             IN  /\ e.action \in {"CREATE", "UPDATE", "DELETE"}
                 /\ e.target_model \in {"PatientProfile", "Appointment"}
                 /\ e.target_model = "PatientProfile" =>
                       e.target_object_id \in TouchedIds(patients, patients')
                 /\ e.target_model = "Appointment" =>
                       e.target_object_id
                          \in TouchedIds(appointments, appointments')]_vars

\* C18 as stated: every step keeps the entries already in the log, in
\* order and field by field, so the log only grows.
C18_AuditAppendOnly ==
    [][/\ Len(audit') >= Len(audit)
       /\ SubSeq(audit', 1, Len(audit)) = audit]_vars

---------------------------------------------------------------------------
(* Properties of document activation *)

DocOps == {"doc_create", "doc_save"}

\* The rows of the document table that a step inserted or whose is_active
\* it changed.
TouchedDocs ==
    {k \in DOMAIN docs' : k \notin DOMAIN docs \/ docs'[k] # docs[k]}

\* The versions a step made active.
Activated == {k \in TouchedDocs : docs'[k]}

\* C21 as stated: saving a version never fails: an activation is
\* accepted whatever other version of the type is active.
C21_Original ==
    [][resp'.op = "doc_save" => resp'.status = 200]_vars

\* C21 as amended: an operator's create or save touches one row at most, so
\* it never deactivates another version; a version becomes active only
\* when no other version of its type was active before the step, and it
\* is then the only active version of the type; a refused step changes no
\* document.
C21_ActivationNeedsPriorDeactivation ==
    [][resp'.op \in DocOps =>
          /\ Cardinality(TouchedDocs) <= 1
          /\ DOMAIN docs \subseteq DOMAIN docs'
          /\ \A k \in Activated :
                /\ \A o \in ActiveDocs(docs) : o[1] = k[1] => o = k
                /\ \A o \in ActiveDocs(docs') : o[1] = k[1] => o = k
          /\ resp'.status = 500 => docs' = docs]_vars

\* C21 witness: with version 1 of the terms active, the activation of
\* version 2 was refused; both rows are as they were.
C21_Witness ==
    /\ resp.op = "doc_save" /\ resp.status = 500
    /\ DOMAIN docs = {<<"TERMS", 1>>, <<"TERMS", 2>>}
    /\ docs[<<"TERMS", 1>>] /\ ~docs[<<"TERMS", 2>>]

---------------------------------------------------------------------------
(* Concurrent activation of document versions through LegalDocumentAdmin: *)
(* each request validates the form against the table it reads, then       *)
(* writes the row; the requests interleave between the two statements.    *)

Activators == {1, 2}

ActivateIdle == [pc |-> "start", key |-> None, result |-> None]

\* The table before the requests: an inactive version of the terms, the
\* active privacy policy.
ActivateDocs == (<<"TERMS", 1>> :> FALSE) @@ (<<"PRIVACY", 1>> :> TRUE)

InitActivate ==
    /\ users = ConsentUsers
    /\ docs = ActivateDocs
    /\ consents = EmptyBag
    /\ patients = <<>>
    /\ nextPatientId = 1
    /\ appointments = <<>>
    /\ nextAppointmentId = 1
    /\ audit = <<>>
    /\ tokens = {}
    /\ outbox = {}
    /\ reg = [p \in Activators |-> ActivateIdle]
    /\ resp = InitResp

\* The table a request for key as active would leave.
WithActive(d, key) ==
    [k \in DOMAIN d \cup {key} |-> IF k = key THEN TRUE ELSE d[k]]

\* ModelAdmin form validation (full_clean, validate_constraints) of a
\* request to store key as active, against the rows read at that moment.
ActivateValidate(p, key) ==
    /\ reg[p].pc = "start"
    /\ IF uniq_active_legal_document_per_type(WithActive(docs, key))
       THEN /\ reg' = [reg EXCEPT ![p] = [pc |-> "validated", key |-> key,
                                          result |-> None]]
            /\ UNCHANGED resp
       ELSE /\ reg' = [reg EXCEPT ![p] = [pc |-> "done", key |-> key,
                                          result |-> "ValidationError"]]
            /\ resp' = Response("doc_activate", Operator, 400,
                                "ValidationError", p)
    /\ UNCHANGED <<users, tokens, outbox, docs, consents, audit>>
    /\ Unchanged_records

\* The INSERT or UPDATE of the validated request.
ActivateWrite(p) ==
    LET key == reg[p].key
        r == IF key \in DOMAIN docs THEN LegalDocument_save(docs, key, TRUE)
             ELSE LegalDocument_create(docs, key, TRUE)
    IN  /\ reg[p].pc = "validated"
        /\ r.ok => Cardinality(DOMAIN docs \cup {key}) <= MaxDocs
        /\ docs' = r.docs
        /\ reg' = [reg EXCEPT ![p].pc = "done",
                              ![p].result = IF r.ok THEN "ok"
                                            ELSE "IntegrityError"]
        /\ resp' = Response("doc_activate", Operator,
                            IF r.ok THEN 200 ELSE 500,
                            IF r.ok THEN "ok" ELSE "IntegrityError", p)
        /\ UNCHANGED <<users, tokens, outbox, consents, audit>>
        /\ Unchanged_records

NextActivate ==
    \/ \E p \in Activators, key \in DocKeys : ActivateValidate(p, key)
    \/ \E p \in Activators : ActivateWrite(p)

SpecActivate == InitActivate /\ [][NextActivate]_vars

\* Two requests that ended, for different versions of one type that had no
\* active version before them.
Contenders(p, q) ==
    /\ p # q
    /\ reg[p].pc = "done" /\ reg[q].pc = "done"
    /\ reg[p].key[1] = reg[q].key[1] /\ reg[p].key # reg[q].key
    /\ \A k \in ActiveDocs(ActivateDocs) : k[1] # reg[p].key[1]

---------------------------------------------------------------------------
(* The coarse permission check, applied to every kind of principal *)

ManagementResources == {"patients", "appointments", "staff"}
Methods == {"GET", "POST", "PATCH", "DELETE"}

\* The role permission class of the viewset that serves the resource:
\* IsClinicStaffOrReadOnly for patients and appointments,
\* IsClinicOwnerOrSaaSAdmin for staff; neither looks at the method.
hasPermission(user, resource, method) ==
    IF resource = "staff" THEN IsClinicOwnerOrSaaSAdmin_has_permission(user)
    ELSE IsClinicStaffOrReadOnly_has_permission(user)

PermissionPrincipals ==
    {UserRow(1, role, clinic, su, NoUser) :
        role \in Role, clinic \in Clinic \cup {None}, su \in BOOLEAN}
      \cup {AnonymousUser}

InitPermission ==
    /\ users = <<>>
    /\ EmptyStore

\* One evaluation of the check; the answer is kept in the response.
HasPermissionCheck(user, resource, method) ==
    /\ resp' = Response("has_permission", user, 200, "ok",
                        [resource |-> resource, method |-> method,
                         allowed |-> hasPermission(user, resource, method)])
    /\ UNCHANGED audit
    /\ Unchanged_identity /\ Unchanged_consent /\ Unchanged_records

NextPermission ==
    \E user \in PermissionPrincipals, resource \in ManagementResources,
       method \in Methods :
       HasPermissionCheck(user, resource, method)

SpecPermission == InitPermission /\ [][NextPermission]_vars

\* C23: the coarse check allows every PlatformAdmin and every superuser
\* on every management resource and method, refuses every caller without
\* credentials, and refuses every Patient that is not a superuser on the
\* patient, appointment and staff resources.
C23_CoarseCheck ==
    resp.op = "has_permission" =>
       /\ (resp.user.is_authenticated /\ IsAdmin(resp.user))
             => resp.data.allowed
       /\ ~resp.user.is_authenticated => ~resp.data.allowed
       /\ (resp.user.role = PATIENT /\ ~resp.user.is_superuser)
             => ~resp.data.allowed

\* C23 witness: a platform admin without a clinic was allowed to delete on
\* the staff resource.
C23_Witness ==
    /\ resp.op = "has_permission"
    /\ resp.user.role = SAAS_ADMIN /\ ~resp.user.is_superuser
    /\ resp.user.clinic = None
    /\ resp.data.resource = "staff" /\ resp.data.method = "DELETE"
    /\ resp.data.allowed

---------------------------------------------------------------------------
(* Registration followed by login and e-mail verification *)

NextSignup ==
    \/ \E p \in RegProcs, email \in RegEmails, cpf \in {<<"1">>, <<"1", "1">>},
          agree \in RegAgreements :
          RegValidate(p, "A", email, cpf, TRUE, agree)
    \/ \E p \in RegProcs : RegCreateUser(p)
    \/ \E p \in RegProcs : RegCreatePatient(p)
    \/ \E p \in RegProcs : RegFinish(p)
    \/ \E password_ok \in BOOLEAN : Login("p1@example.com", password_ok)
    \/ \E code \in TokenCodes : VerifyEmail(code, TRUE, FALSE)
    \/ \E active \in BOOLEAN : DocSetActive(<<"TERMS", 1>>, active)

SpecSignup == InitReg /\ [][NextSignup]_vars

\* C24 as stated: once a registration has ended successfully, a login
\* with the registered e-mail is answered 200 with the token pair; it is
\* answered 401 only when the password is not the registered one.
C24_LoginAfterRegistration ==
    [][\A p \in RegProcs :
          (reg[p].pc = "done" /\ resp'.op = "login"
                /\ resp'.data = reg[p].email)
             => \/ resp'.status = 200
                \/ Authenticate(reg[p].email, TRUE) # NoUser]_vars

\* The rows a registration request writes.
RegistrationTables == <<users, patients, consents, tokens>>

\* C25: validation passes only with the three agreement flags true; a
\* request refused at validation creates no account, patient record,
\* consent or code; and when a registration ends successfully its account
\* holds a consent for every document active at that moment, so
\* has_active_consent is true of it.
C25_RegistrationConsents ==
    [][\A p \in RegProcs :
             /\ (reg[p].pc = "start" /\ reg'[p].pc = "validated")
                   => reg'[p].agree = <<TRUE, TRUE, TRUE>>
             /\ (reg[p].pc = "start" /\ reg'[p].pc = "rejected")
                   => UNCHANGED RegistrationTables
             /\ (reg[p].pc # "done" /\ reg'[p].pc = "done")
                   => LET u == users'[reg'[p].user]
                      IN  /\ \A k \in ActiveDocs(docs') :
                                BagIn(ConsentRow(u.id, k), consents')
                          /\ has_active_consent(u, docs', consents')]_vars

\* C25 witness: a registration ended successfully while two documents
\* were active and its account holds a consent for both; another request
\* was refused for a missing agreement.
C25_Witness ==
    \E p, q \in RegProcs :
       /\ reg[p].pc = "done"
       /\ Cardinality(ActiveDocs(docs)) = 2
       /\ \A k \in ActiveDocs(docs) :
             BagIn(ConsentRow(reg[p].user, k), consents)
       /\ reg[q].pc = "rejected" /\ reg[q].error = "detail"

---------------------------------------------------------------------------
(* Tenant references: the records of two clinics under updates whose     *)
(* bodies name a clinic, a doctor or a patient of the other clinic.      *)

\* Patient 1 is the profile of the patient account of clinic A; patient 2
\* is a record of clinic B.
TenantRecords ==
    PatientProfile_create(
        PatientProfile_create(<<>>, 1, "A", <<"1">>, 5).patients,
        2, "B", <<"1">>, NoUser).patients

InitTenant ==
    /\ users = StaffAccounts
    /\ docs = <<>>
    /\ consents = EmptyBag
    /\ patients = TenantRecords
    /\ nextPatientId = 3
    /\ appointments = (1 :> AppointmentRow("A", 6, 1))
    /\ nextAppointmentId = 2
    /\ audit = <<>>
    /\ tokens = {}
    /\ outbox = {}
    /\ reg = <<>>
    /\ resp = InitResp

\* request.user of the requests: the owner of A, the platform admin or the
\* patient of A.
TenantActors == {users[i] : i \in {1, 2, 5}}

\* Request bodies of the updates.
TenantPatientBodies ==
    {[cpf |-> <<"1", "1">>, clinic |-> "B"],
     [cpf |-> <<"1">>, clinic |-> "A"]}
TenantAppointmentBodies ==
    {[status |-> CONFIRMED, clinic |-> "B"],
     [status |-> REQUESTED, clinic |-> "B", doctor |-> 4, patient |-> 2],
     [status |-> REQUESTED, doctor |-> 5]}
TenantDoctorInputs == {4, 6}

NextTenant ==
    \/ \E user \in TenantActors, id \in PatientIds,
          data \in TenantPatientBodies :
          PatientViewSet_update(user, TenantMiddleware(user), id, data, TRUE)
    \/ \E user \in TenantActors, id \in 1..MaxAppointments,
          data \in TenantAppointmentBodies :
          AppointmentViewSet_update(user, TenantMiddleware(user), id, data,
                                    TRUE)
    \/ \E user \in TenantActors, id \in StaffUpdateTargets,
          clinic_id \in Clinic :
          StaffUpdate(user, id, DOCTOR, clinic_id, FALSE)
    \/ \E user \in TenantActors, doctor \in TenantDoctorInputs,
          patient \in PatientIds :
          AppointmentCreate(user, TenantMiddleware(user), doctor, patient)
    \/ \E user \in TenantActors, doctor \in TenantDoctorInputs :
          AppointmentRequest(user, doctor, TRUE)

SpecTenant == InitTenant /\ [][NextTenant]_vars

---------------------------------------------------------------------------
(* Properties of the tenant references *)

UpdateOps == {"patient_update", "appointment_update", "staff_update"}

\* C26: no update through the patient, appointment or staff endpoints
\* changes the clinic of an existing patient record, appointment or
\* account, whatever clinic the request body names: across every update
\* step each row that existed keeps existing with the clinic it had.
C26_UpdateKeepsTenant ==
    [][resp'.op \in UpdateOps =>
          /\ \A i \in DOMAIN patients :
                i \in DOMAIN patients' /\ patients'[i].clinic = patients[i].clinic
          /\ \A i \in DOMAIN appointments :
                /\ i \in DOMAIN appointments'
                /\ appointments'[i].clinic = appointments[i].clinic
          /\ \A i \in DOMAIN users :
                i \in DOMAIN users' /\ users'[i].clinic = users[i].clinic]_vars

\* C26 witness: a patient update whose body named clinic B was answered
\* 200 with the new cpf stored, and the record is still of clinic A.
C26_Witness ==
    /\ resp.op = "patient_update" /\ resp.status = 200
    /\ resp.data = [id |-> 1, clinic |-> "B"]
    /\ patients[1].clinic = "A"
    /\ patients[1].cpf = <<"1", "1">>

\* C27 as stated: in every reachable state the doctor and the patient
\* record of each appointment are of the appointment's own clinic.
C27_AppointmentWithinTenant ==
    \A a \in DOMAIN appointments :
       /\ users[appointments[a].doctor].clinic = appointments[a].clinic
       /\ patients[appointments[a].patient].clinic = appointments[a].clinic

---------------------------------------------------------------------------
(* Atomicity of patient registration *)

\* The rows a registration request left in the store.
RegistrationRows(p) ==
    LET u == reg[p].user
    IN  IF u = NoUser THEN {}
        ELSE {<<"user", i>> : i \in {i \in DOMAIN users : i = u}}
             \cup {<<"patient", i>> :
                      i \in {i \in DOMAIN patients : patients[i].user = u}}
             \cup {<<"consent", k>> :
                      k \in {k \in DOMAIN docs : BagIn(ConsentRow(u, k), consents)}}
             \cup {<<"token", t.token>> : t \in {t \in tokens : t.user = u}}

\* C28 as stated: when a registration request fails after its user was
\* created, no user, patient record, consent or verification code of the
\* request remains; in particular its Patient user does not remain
\* without a patient record.
C28_RegistrationAllOrNothing ==
    \A p \in RegProcs : reg[p].pc = "failed" => RegistrationRows(p) = {}

---------------------------------------------------------------------------
(* Concurrent e-mail verification: each request reads the unused code    *)
(* and then writes, as two steps of its own process.                     *)

Verifiers == {1, 2}

VerifyIdle == [pc |-> "start", ev |-> None, result |-> 0]

\* Two registered accounts, each with an unused code.
VerifyUsers ==
    <<RegisteredUser(1, "p1@example.com", "A"),
      RegisteredUser(2, "p2@example.com", "A")>>

InitVerify ==
    /\ users = VerifyUsers
    /\ docs = <<>>
    /\ consents = EmptyBag
    /\ patients = <<>>
    /\ nextPatientId = 1
    /\ appointments = <<>>
    /\ nextAppointmentId = 1
    /\ audit = <<>>
    /\ tokens = {TokenRow(1, 1), TokenRow(2, 2)}
    /\ outbox = {}
    /\ reg = [p \in Verifiers |-> VerifyIdle]
    /\ resp = InitResp

\* VerifyEmailView.post up to the expiry check: the checks of the code and
\* EmailVerificationToken.objects.get(token=token, is_used=False).  A
\* process that has answered takes the next request.
VerifyRead(p, code, well_formed, expired) ==
    LET match == {t \in tokens : t.token = code /\ ~t.is_used}
    IN  /\ reg[p].pc \in {"start", "done"}
        /\ IF ~well_formed \/ match = {} \/ expired
           THEN /\ reg' = [reg EXCEPT ![p] = [pc |-> "done", ev |-> None,
                                              result |-> 400]]
                /\ resp' = Response("verify_email", AnonymousUser, 400,
                                    "ValidationError", code)
           ELSE /\ reg' = [reg EXCEPT ![p] =
                              [pc |-> "read", ev |-> CHOOSE t \in match : TRUE,
                               result |-> 0]]
                /\ UNCHANGED resp
        /\ UNCHANGED <<users, tokens, outbox, audit>>
        /\ Unchanged_consent /\ Unchanged_records

\* VerifyEmailView.post from ev.save(update_fields=...) on: the row of the
\* code is updated by primary key, the account is activated, the audit
\* entry is appended and the request is answered 200.
VerifyWrite(p) ==
    LET ev == reg[p].ev
        uid == ev.user
    IN  /\ reg[p].pc = "read"
        /\ Len(audit) < MaxAudit
        /\ tokens' = {IF t.token = ev.token THEN [t EXCEPT !.is_used = TRUE]
                      ELSE t : t \in tokens}
        /\ users' = [users EXCEPT ![uid].is_active = TRUE,
                                  ![uid].is_verified = TRUE]
        /\ audit' = create_audit_log(audit, users[uid], users[uid].clinic,
                                     "CustomUser", uid, "UPDATE")
        /\ reg' = [reg EXCEPT ![p] = [pc |-> "done", ev |-> ev,
                                      result |-> 200]]
        /\ resp' = Response("verify_email", AnonymousUser, 200, "ok",
                            ev.token)
        /\ UNCHANGED outbox
        /\ Unchanged_consent /\ Unchanged_records

NextVerify ==
    \/ \E p \in Verifiers, code \in TokenCodes, well_formed \in BOOLEAN,
          expired \in BOOLEAN :
          VerifyRead(p, code, well_formed, expired)
    \/ \E p \in Verifiers : VerifyWrite(p)

SpecVerify == InitVerify /\ [][NextVerify]_vars

\* The verification entries of the audit log for an account.
VerificationEntries(uid) ==
    {k \in DOMAIN audit :
        /\ audit[k].target_model = "CustomUser"
        /\ audit[k].target_object_id = uid
        /\ audit[k].action = "UPDATE"}

\* C29 as stated: a verification code is used successfully at most once,
\* also by concurrent requests: a request is answered 200 only for a code
\* that was unused just before the answer, and the account of each code
\* has at most one verification entry in the audit log.
C29_CodeUsedOnce ==
    /\ \A t \in tokens : Cardinality(VerificationEntries(t.user)) <= 1
    /\ \A p, q \in Verifiers :
          (p # q /\ reg[p].result = 200 /\ reg[q].result = 200)
             => reg[p].ev.token # reg[q].ev.token

---------------------------------------------------------------------------
(* Recovery from missing consent *)

\* core/urls.py consent/active-docs/ and consent/accept/ under /api/
RecoveryPaths == {"/api/consent/active-docs/", "/api/consent/accept/"}

\* The accounts of GuardUsers request the consent endpoints, through the
\* middleware and at the view, while the terms are activated and
\* deactivated.
NextRecovery ==
    \/ \E user \in StoredPrincipals : ConsentAccept(user)
    \/ \E user \in StoredPrincipals, path \in Paths : ProcessView(user, path)
    \/ \E active \in BOOLEAN : DocSetActive(<<"TERMS", 1>>, active)

SpecRecovery == InitGuards /\ [][NextRecovery]_vars

\* C30 as stated: for an authenticated principal the consent gate never
\* blocks the listing of the active documents or the accept call, whether
\* or not the principal holds consent, and after an accept by the
\* principal has_active_consent is true of it.
C30_ConsentRecoverable ==
    [][/\ (/\ resp'.op = "process_view"
           /\ resp'.data \in RecoveryPaths
           /\ resp'.user.is_authenticated) => resp'.status # 403
       /\ (resp'.op = "consent_accept" /\ resp'.user.is_authenticated)
             => /\ resp'.status # 403
                /\ has_active_consent(resp'.user, docs', consents')]_vars

---------------------------------------------------------------------------
(* Isolation of the clinics under writes and deletes by their own staff *)

\* request.user of the requests: the owner and the secretary of A, the
\* doctor of B and the patient of A; none is an admin or a superuser.
IsolationActors == {users[i] : i \in {1, 3, 4, 5} \cap DOMAIN users}

IsolationBodies ==
    {[status |-> CONFIRMED],
     [status |-> REQUESTED, doctor |-> 4, patient |-> 2]}

NextIsolation ==
    \/ \E user \in IsolationActors, id \in PatientIds :
          PatientViewSet_update(user, TenantMiddleware(user), id,
                                [cpf |-> <<"1", "1">>, clinic |-> "B"], TRUE)
    \/ \E user \in IsolationActors, id \in PatientIds :
          PatientDelete(user, TenantMiddleware(user), id)
    \/ \E user \in IsolationActors, doctor \in TenantDoctorInputs,
          patient \in PatientIds :
          AppointmentCreate(user, TenantMiddleware(user), doctor, patient)
    \/ \E user \in IsolationActors, id \in 1..MaxAppointments,
          data \in IsolationBodies :
          AppointmentViewSet_update(user, TenantMiddleware(user), id, data,
                                    TRUE)
    \/ \E user \in IsolationActors, id \in 1..MaxAppointments :
          AppointmentDelete(user, TenantMiddleware(user), id)
    \/ \E user \in IsolationActors, id \in StaffUpdateTargets :
          StaffUpdate(user, id, DOCTOR, "B", FALSE)
    \/ \E user \in IsolationActors, id \in StaffUpdateTargets :
          StaffDelete(user, id)

SpecIsolation == InitTenant /\ [][NextIsolation]_vars

\* The rows of a table that are of another clinic than c and that the
\* step changed or removed.
ForeignRowsTouched(old, new, c) ==
    {i \in DOMAIN old :
        /\ old[i].clinic # c
        /\ (i \notin DOMAIN new \/ new[i] # old[i])}

\* C31 as stated: a request of a principal that is neither PlatformAdmin
\* nor superuser changes or removes no patient record, appointment or
\* account of another clinic than the principal's, cascading deletes
\* included.
C31_NoCrossTenantWrite ==
    [][LET u == resp'.user
       IN  (u.is_authenticated /\ ~IsAdmin(u)) =>
              /\ ForeignRowsTouched(patients, patients', u.clinic) = {}
              /\ ForeignRowsTouched(appointments, appointments', u.clinic) = {}
              /\ ForeignRowsTouched(users, users', u.clinic) = {}]_vars

---------------------------------------------------------------------------
(* Two registered, unverified patient accounts next to the owner of      *)
(* their clinic: login, e-mail verification and the staff endpoint.      *)

UnverifiedUsers ==
    <<StaffRow(1, CLINIC_OWNER, "A", FALSE, "owner_a@example.com"),
      RegisteredUser(2, "p1@example.com", "A"),
      RegisteredUser(3, "p2@example.com", "A")>>

InitUnverified ==
    /\ users = UnverifiedUsers
    /\ docs = <<>>
    /\ consents = EmptyBag
    /\ patients = PatientProfile_create(<<>>, 1, "A", <<"1">>, 2).patients
    /\ nextPatientId = 2
    /\ appointments = <<>>
    /\ nextAppointmentId = 1
    /\ audit = <<>>
    /\ tokens = {TokenRow(2, 1), TokenRow(3, 2)}
    /\ outbox = {}
    /\ reg = <<>>
    /\ resp = InitResp

NextUnverified ==
    \/ \E username \in {"p1@example.com", "owner_a@example.com"},
          password_ok \in BOOLEAN : Login(username, password_ok)
    \/ \E code \in TokenCodes, well_formed \in BOOLEAN, expired \in BOOLEAN :
          VerifyEmail_db(code, well_formed, expired, TRUE)
    \/ \E user \in StoredPrincipals, id \in DOMAIN users,
          is_active \in {<<>>, <<TRUE>>, <<FALSE>>} :
          StaffUserViewSet_partial_update(user, id, None, None, "", "",
                                          is_active)

SpecUnverified == InitUnverified /\ [][NextUnverified]_vars

\* C32 as stated: a patient account that is inactive becomes active only
\* by a verification request answered 200 whose code was stored unused for
\* that account, and is then verified too; a login is answered 200 only
\* for an active account; a verification request that is refused changes
\* no table and appends no audit entry.
C32_InactiveUntilVerified ==
    [][/\ \A i \in DOMAIN users :
             (users[i].role = PATIENT /\ ~users[i].is_active
                 /\ i \in DOMAIN users' /\ users'[i].is_active)
                => /\ resp'.op = "verify_email" /\ resp'.status = 200
                   /\ users'[i].is_verified
                   /\ \E t \in tokens :
                         t.user = i /\ t.token = resp'.data /\ ~t.is_used
       /\ (resp'.op = "login" /\ resp'.status = 200)
             => users[resp'.user.id].is_active
       /\ (resp'.op = "verify_email" /\ resp'.status = 400)
             => UNCHANGED <<users, tokens, audit, patients, consents>>]_vars

---------------------------------------------------------------------------
(* Concurrent accept calls: each request runs get_or_create document by  *)
(* document, the lookup and the insert being separate steps.             *)

Accepters == {1, 2}

AcceptIdle ==
    [pc |-> "start", user |-> NoUser, snapshot |-> {}, todo |-> {},
     cur |-> None, created |-> 0, conflicts |-> 0, result |-> 0]

\* Two documents are active; the admin already consented to the terms.
AcceptDocs == (<<"TERMS", 1>> :> TRUE) @@ (<<"PRIVACY", 1>> :> TRUE)

InitAccept ==
    /\ users = ConsentUsers
    /\ docs = AcceptDocs
    /\ consents = SetToBag({ConsentRow(2, <<"TERMS", 1>>)})
    /\ patients = <<>>
    /\ nextPatientId = 1
    /\ appointments = <<>>
    /\ nextAppointmentId = 1
    /\ audit = <<>>
    /\ tokens = {}
    /\ outbox = {}
    /\ reg = [p \in Accepters |-> AcceptIdle]
    /\ resp = InitResp

\* Mutant: the table carries no unique_together.
UserConsent_unique_together_missing(c) == TRUE

\* UserConsent.Meta.unique_together = ["user", "document"]
UserConsent_unique_together(c) ==
    \A r \in BagToSet(c) : CopiesIn(r, c) <= 1

\* ConsentAcceptView.post: request.user and the active documents the loop
\* iterates.  A process that has answered takes the next request.
AcceptStart(p, uid) ==
    /\ reg[p].pc \in {"start", "done"}
    /\ uid \in DOMAIN users
    /\ reg' = [reg EXCEPT ![p] = [AcceptIdle EXCEPT
                  !.pc = "get", !.user = uid,
                  !.snapshot = ActiveDocs(docs), !.todo = ActiveDocs(docs)]]
    /\ UNCHANGED <<users, tokens, outbox, docs, consents, audit, resp>>
    /\ Unchanged_records

\* get_or_create: the lookup of the next document's record.
AcceptGet(p) ==
    LET r == reg[p]
        key == CHOOSE k \in r.todo : TRUE
    IN  /\ r.pc = "get" /\ r.todo # {}
        /\ reg' = IF BagIn(ConsentRow(r.user, key), consents)
                  THEN [reg EXCEPT ![p].todo = r.todo \ {key}]
                  ELSE [reg EXCEPT ![p].pc = "create", ![p].cur = key]
        /\ UNCHANGED <<users, tokens, outbox, docs, consents, audit, resp>>
        /\ Unchanged_records

\* get_or_create: the INSERT after a lookup that found nothing; when the
\* constraint refuses it the IntegrityError is caught and the record is
\* looked up again.
AcceptCreate(p) ==
    LET r == reg[p]
        new == consents (+) SetToBag({ConsentRow(r.user, r.cur)})
    IN  /\ r.pc = "create"
        /\ IF UserConsent_unique_together(new)
           THEN /\ consents' = new
                /\ reg' = [reg EXCEPT ![p].pc = "get", ![p].cur = None,
                                      ![p].todo = r.todo \ {r.cur},
                                      ![p].created = r.created + 1]
           ELSE /\ UNCHANGED consents
                /\ reg' = [reg EXCEPT ![p].pc = "get", ![p].cur = None,
                                      ![p].todo = r.todo \ {r.cur},
                                      ![p].conflicts = r.conflicts + 1]
        /\ UNCHANGED <<users, tokens, outbox, docs, audit, resp>>
        /\ Unchanged_records

\* ConsentAcceptView.post after the loop: the audit entry and the answer.
AcceptFinish(p) ==
    LET r == reg[p]
    IN  /\ r.pc = "get" /\ r.todo = {}
        /\ Len(audit) < MaxAudit
        /\ audit' = create_audit_log(audit, users[r.user], users[r.user].clinic,
                                     "LegalDocument", "*", "UPDATE")
        /\ reg' = [reg EXCEPT ![p].pc = "done", ![p].result = 201]
        /\ resp' = Response("consent_accept", users[r.user], 201, "ok",
                            [created |-> r.created,
                             total_active |-> Cardinality(r.snapshot)])
        /\ UNCHANGED <<users, tokens, outbox, docs, consents>>
        /\ Unchanged_records

NextAccept ==
    \/ \E p \in Accepters, uid \in DOMAIN users : AcceptStart(p, uid)
    \/ \E p \in Accepters : AcceptGet(p)
    \/ \E p \in Accepters : AcceptCreate(p)
    \/ \E p \in Accepters : AcceptFinish(p)

SpecAccept == InitAccept /\ [][NextAccept]_vars

\* C33: under concurrent accept calls every (principal, document) has at
\* most one consent record; an accept call that has answered answered 201
\* and left exactly one record of its principal for each document it
\* iterated; and no step removes or changes an existing record.
C33_ConsentUniqueUnderConcurrency ==
    [][/\ \A r \in BagToSet(consents') : CopiesIn(r, consents') = 1
       /\ \A r \in BagToSet(consents) :
             CopiesIn(r, consents') >= CopiesIn(r, consents)
       /\ \A p \in Accepters :
             reg'[p].pc = "done"
                => /\ reg'[p].result = 201
                   /\ \A k \in reg'[p].snapshot :
                         CopiesIn(ConsentRow(reg'[p].user, k), consents') = 1]_vars

\* C33 witness: two accept calls of the same principal overlapped; both
\* answered, and one of them lost the insert of a record to the other.
C33_Witness ==
    /\ reg[1].pc = "done" /\ reg[2].pc = "done"
    /\ reg[1].user = reg[2].user
    /\ reg[1].created + reg[2].created = 2
    /\ reg[1].conflicts + reg[2].conflicts >= 1
    /\ \A k \in ActiveDocs(docs) :
          CopiesIn(ConsentRow(reg[1].user, k), consents) = 1

---------------------------------------------------------------------------
(* The confirmation notice of an appointment *)

\* Two appointments of clinic A: one requested, one already confirmed, and
\* no notice sent yet.
InitNotice ==
    /\ users = StaffAccounts
    /\ docs = <<>>
    /\ consents = EmptyBag
    /\ patients = TenantRecords
    /\ nextPatientId = 3
    /\ appointments =
          (1 :> AppointmentRow("A", 6, 1)) @@
          (2 :> [AppointmentRow("A", 6, 1) EXCEPT !.status = CONFIRMED])
    /\ nextAppointmentId = 3
    /\ audit = <<>>
    /\ tokens = {}
    /\ outbox = {}
    /\ reg = <<>>
    /\ resp = InitResp

\* request.user of the requests: the owner of A or the patient of A.
NoticeActors == {users[i] : i \in {1, 5}}

\* Bodies of the update: a status, or the doctor alone.
NoticeBodies == {[status |-> st] : st \in AppointmentStatuses} \cup {[doctor |-> 6]}

NextNotice ==
    \E user \in NoticeActors, id \in DOMAIN appointments,
       data \in NoticeBodies, audit_ok \in BOOLEAN :
       AppointmentViewSet_update(user, TenantMiddleware(user), id, data,
                                 audit_ok)

SpecNotice == InitNotice /\ [][NextNotice]_vars

\* The notice of appointment i
ConfirmationNotice(i) == Notification("appointment_confirmation", i)

\* C34: a confirmation notice is dispatched for an appointment exactly
\* when an appointment update that has answered 200 changed its status
\* from a value other than CONFIRMED to CONFIRMED; an update that leaves
\* the status as it was, or saves another status, dispatches none; and a
\* step that dispatches has saved the update and appended its AuditEntry.
C34_NoticeOnConfirmation ==
    [][\A i \in DOMAIN appointments :
          LET becomes == /\ appointments[i].status # CONFIRMED
                         /\ appointments'[i].status = CONFIRMED
          IN  /\ (resp'.op = "appointment_update" /\ resp'.status = 200
                    /\ resp'.data.id = i /\ becomes)
                    => ConfirmationNotice(i) \in outbox'
              /\ (ConfirmationNotice(i) \in outbox' \ outbox)
                    => /\ becomes
                       /\ resp'.op = "appointment_update"
                       /\ resp'.status = 200
                       /\ resp'.data.id = i
                       /\ Len(audit') = Len(audit) + 1
                       /\ LET e == audit'[Len(audit')]
                          IN  /\ e.target_model = "Appointment"
                              /\ e.target_object_id = i
                              /\ e.action = "UPDATE"
                              /\ e.actor = resp'.user.id
              /\ ~becomes => outbox' \cap {ConfirmationNotice(i)}
                                 = outbox \cap {ConfirmationNotice(i)}]_vars

\* C34 witness: the requested appointment was confirmed and its notice is
\* out, while the appointment that was confirmed from the start was saved
\* as confirmed again and has no notice.
C34_Witness ==
    /\ ConfirmationNotice(1) \in outbox
    /\ ConfirmationNotice(2) \notin outbox
    /\ appointments[1].status = CONFIRMED
    /\ appointments[2].status = CONFIRMED
    /\ resp.op = "appointment_update" /\ resp.status = 200
    /\ resp.data = [id |-> 2]
    /\ Len(audit) = 2

---------------------------------------------------------------------------
(* The doctor profile kept by the staff endpoints *)

\* The owner of A, a doctor of A with a stored profile, a secretary of A.
ProfileUsers ==
    <<StaffRow(1, CLINIC_OWNER, "A", FALSE, "owner_a@example.com"),
      DoctorProfile_update_or_create(
          StaffRow(2, DOCTOR, "A", FALSE, "doc_a@example.com"),
          "CRM-1", "Cardiologia"),
      StaffRow(3, SECRETARY, "A", FALSE, "sec_a@example.com")>>

InitProfile ==
    /\ users = ProfileUsers
    /\ EmptyStore

\* request.user of the requests: the owner or the secretary.
ProfileActors == {users[i] : i \in {1, 3}}
ProfileRoles == {None, DOCTOR, SECRETARY}
ProfileEmails == {"doc_new@example.com"}

\* The accounts the updates name: the stored doctor and the created account.
ProfileTargets == {2, 4} \cap DOMAIN users

NextProfile ==
    \/ \E user \in ProfileActors, role \in ProfileRoles,
          email \in ProfileEmails, crm \in CrmInputs,
          specialty \in SpecialtyInputs :
          StaffUserViewSet_create(user, role, None, email, crm, specialty,
                                  <<>>)
    \/ \E user \in ProfileActors, id \in ProfileTargets,
          role \in ProfileRoles, crm \in CrmInputs,
          specialty \in SpecialtyInputs :
          StaffUserViewSet_partial_update(user, id, role, None, crm,
                                          specialty, <<>>)

SpecProfile == InitProfile /\ [][NextProfile]_vars

\* The answer of a request refused by the serializer
IsValidationError(r) == r.status = 400 /\ r.detail = "ValidationError"

\* C35: a staff create or update whose role is not DOCTOR and that
\* supplies a non-empty crm or specialty changes no account and is answered
\* with a refusal, which for a clinic owner is the validation error; and a
\* create with role DOCTOR answered 201 added exactly one account, of role
\* DOCTOR, whose one profile carries the crm and specialty supplied.
C35_DoctorFieldsOnlyForDoctor ==
    [][\A user \in ProfileActors, role \in ProfileRoles,
          crm \in CrmInputs, specialty \in SpecialtyInputs :
          /\ (role # DOCTOR /\ (crm # "" \/ specialty # "")
                /\ \/ \E email \in ProfileEmails :
                         StaffUserViewSet_create(user, role, None, email,
                                                 crm, specialty, <<>>)
                   \/ \E id \in ProfileTargets :
                         StaffUserViewSet_partial_update(user, id, role, None,
                                                  crm, specialty, <<>>))
                => /\ users' = users
                   /\ resp'.status \in {400, 403}
                   /\ user.role = CLINIC_OWNER => IsValidationError(resp')
          /\ (resp'.status = 201
                /\ \E email \in ProfileEmails :
                      StaffUserViewSet_create(user, DOCTOR, None, email, crm,
                                              specialty, <<>>))
                => LET id == resp'.data.id
                   IN  /\ id \notin DOMAIN users
                       /\ DOMAIN users' = DOMAIN users \cup {id}
                       /\ \A i \in DOMAIN users : users'[i] = users[i]
                       /\ users'[id].role = DOCTOR
                       /\ users'[id].doctor_profile =
                             [crm |-> crm, specialty |-> specialty]]_vars

\* C35 witness: a doctor was created with a license id and a specialty,
\* and a later update naming role SECRETARY with a license id was refused.
C35_Witness ==
    /\ 4 \in DOMAIN users
    /\ users[4].role = DOCTOR
    /\ users[4].doctor_profile = [crm |-> "CRM-1", specialty |-> "Cardiologia"]
    /\ resp.op = "staff_update"
    /\ IsValidationError(resp)
    /\ resp.data = StaffRequest(4, SECRETARY, None)

\* C38: a staff update of an account of role DOCTOR whose request supplies
\* neither crm nor specialty, answered 200, leaves the crm and specialty
\* of the profile the account had as they were.
C38_ProfileKeptWhenNotSupplied ==
    [][\A id \in ProfileTargets :
          (/\ users[id].role = DOCTOR
           /\ "doctor_profile" \in DOMAIN users[id]
           /\ resp'.status = 200
           /\ \E user \in ProfileActors, role \in ProfileRoles :
                 StaffUserViewSet_partial_update(user, id, role, None, "", "",
                                                 <<>>))
             => users'[id].doctor_profile = users[id].doctor_profile]_vars

---------------------------------------------------------------------------
(* The bootstrap of the demo documents, run again *)

\* C36: every run of the bootstrap, whatever ran before it, completes
\* without error, keeps every stored document, adds only documents of
\* the demo version whose (type, version) was absent, and leaves at most
\* one active document per type.
C36_BootstrapSafeToRetry ==
    [][resp'.op = "bootstrap" =>
          /\ resp'.status = 200
          /\ DOMAIN docs \subseteq DOMAIN docs'
          /\ DOMAIN docs' \ DOMAIN docs \subseteq DemoDocKeys
          /\ \A k1, k2 \in ActiveDocs(docs') : k1[1] = k2[1] => k1 = k2]_vars

---------------------------------------------------------------------------
(* The appointment request of a patient *)

\* request.user of the requests: the secretary, the patient and the doctor
\* of A, or no account.
RequestActors == {users[i] : i \in {3, 5, 6}} \cup {AnonymousUser}

\* doctor_id of the requests: the secretary of A, the doctor of B, the
\* doctor of A, or no account.
RequestDoctorInputs == {3, 4, 6, 9}

NextRequest ==
    \E user \in RequestActors, doctor_id \in RequestDoctorInputs,
       start_time \in TimeInputs, end_time \in TimeInputs,
       audit_ok \in BOOLEAN :
       AppointmentRequestView_post(user, doctor_id, start_time, end_time,
                                   audit_ok)

\* The accounts and patient records of the tenants, and no appointment yet.
InitRequest ==
    /\ users = StaffAccounts
    /\ docs = <<>>
    /\ consents = EmptyBag
    /\ patients = TenantRecords
    /\ nextPatientId = 3
    /\ appointments = <<>>
    /\ nextAppointmentId = 1
    /\ audit = <<>>
    /\ tokens = {}
    /\ outbox = {}
    /\ reg = <<>>
    /\ resp = InitResp

SpecRequest == InitRequest /\ [][NextRequest]_vars

\* The checks of a request: the caller is a patient with a clinic and a
\* patient record, the doctor is a doctor of the caller's clinic, and the
\* end is after the start.
RequestPassesChecks(user, doctor_id, start_time, end_time) ==
    /\ user.is_authenticated
    /\ user.role = PATIENT
    /\ user.clinic # None
    /\ PatientProfileOf(user) # {}
    /\ doctor_id \in DOMAIN users
    /\ users[doctor_id].role = DOCTOR
    /\ users[doctor_id].clinic = user.clinic
    /\ end_time > start_time

\* C37: every appointment a request step creates was asked by a patient
\* and has status REQUESTED, the caller's clinic, the caller's own patient
\* record, a doctor of role DOCTOR in that clinic, an end after its start
\* and empty clinical notes; no stored appointment changes; and a request
\* by another role, or failing a check, leaves the appointments and the
\* audit log as they were.
C37_PatientRequestOnly ==
    [][/\ resp'.op = "appointment_request" =>
             /\ \A i \in DOMAIN appointments :
                   i \in DOMAIN appointments'
                   /\ appointments'[i] = appointments[i]
             /\ \A i \in DOMAIN appointments' \ DOMAIN appointments :
                   LET a == appointments'[i]
                       u == resp'.user
                   IN  /\ u.role = PATIENT
                       /\ a.status = REQUESTED
                       /\ a.clinic = u.clinic
                       /\ a.patient \in PatientProfileOf(u)
                       /\ a.doctor \in DOMAIN users
                       /\ users[a.doctor].role = DOCTOR
                       /\ users[a.doctor].clinic = a.clinic
                       /\ a.end_time > a.start_time
                       /\ a.clinical_notes = ""
             /\ audit' # audit =>
                   /\ Cardinality(DOMAIN appointments' \ DOMAIN appointments) = 1
                   /\ Len(audit') = Len(audit) + 1
                   /\ audit'[Len(audit')].target_object_id
                         \in DOMAIN appointments' \ DOMAIN appointments
             /\ resp'.status \notin {201, 500} =>
                   UNCHANGED <<appointments, audit>>
       /\ (appointments' # appointments \/ audit' # audit) =>
             \A user \in RequestActors, doctor_id \in RequestDoctorInputs,
                start_time \in TimeInputs, end_time \in TimeInputs,
                audit_ok \in BOOLEAN :
                AppointmentRequestView_post(user, doctor_id, start_time,
                                            end_time, audit_ok)
                   => RequestPassesChecks(user, doctor_id, start_time,
                                          end_time)]_vars

\* C37 witness: the patient's request was answered 201 with the requested
\* appointment stored, and the audit entry of its creation is the last.
C37_Witness ==
    /\ resp.op = "appointment_request" /\ resp.status = 201
    /\ resp.user.role = PATIENT
    /\ resp.data.id \in DOMAIN appointments
    /\ appointments[resp.data.id] =
          AppointmentRequestSerializer_create("A", 6, 1, 2, 3)
    /\ Cardinality(DOMAIN appointments) = 2
    /\ audit # <<>>
    /\ audit[Len(audit)] =
          AuditEntry(resp.user, "A", "Appointment", resp.data.id, "CREATE")

====
